---- MODULE Spec2Model ----
(***************************************************************************)
(* A model of gn-to-gyp: the GN build model (GnBuild / GnProject), the     *)
(* closure resolver GypProject.getAllGnTargetDeps, the coalesced fetch of  *)
(* GnProject.fromDirectory, the concurrency limiter pool, the fragment     *)
(* merger GypTargetBuilder, and the assembler GypProject.fromGnProject     *)
(* with the fragment translator GypProjectBuilder.                         *)
(*                                                                         *)
(* Strings of the program are sequences of one-character strings, so that  *)
(* parsing, prefix tests and concatenation are computed, not assumed.      *)
(* Values that the code only ever compares for equality (target types,     *)
(* promise states, program counters) are plain strings.                    *)
(***************************************************************************)
EXTENDS Integers, Sequences, FiniteSets, TLC

VARIABLES
  \* ---- closure resolver (GypProject.getAllGnTargetDeps) ----
  gnProject,            \* the GnProject handed to the resolver
  gnRootTarget,         \* the root target name handed to the resolver
  cpc,                  \* "idle" | "loop" | "done" | "error"
  gnBuildConfigQueue,   \* the work queue, a sequence of keys
  seenGnBuildConfigs,   \* the Set of stringified keys, in insertion order
  expanded,             \* history: keys whose target was fetched and whose deps were enqueued
  enqueued,             \* history: every key ever pushed on the queue (seeds included)
  fetched,              \* history: every <<toolchain, name>> asked of GnBuild.getTarget
  pushes,               \* history: [from, dep, key] for every dependency pushed on the queue
  closureResult,        \* the array returned, or <<>> before the return
  \* ---- coalesced fetch (GnProject.fromDirectory) ----
  fBuilds,              \* the builds argument
  world,                \* what `gn desc` answers: per build index, name -> GnTarget
  fpc,                  \* the returned promise: "idle" | "pending" | "resolved" | "rejected"
  fetch,                \* per build index: [inv, known, calls, state, awaited, desc]
  fResult,              \* the GnProject the promise resolved with, or NoProject
  \* ---- concurrency limiter (pool) ----
  poolMode,             \* "none" | "limited" | "unlimited" | "threw": what pool(fn, n) gave
  poolArg,              \* the poolSize argument n
  poolSize,             \* the closure's poolSize counter
  pendingPromises,      \* the closure's pendingPromises array, of promise ids
  promises,             \* the promises fn returned: "pending" | "resolved" | "rejected"
  pcalls,               \* the calls of the wrapper: [state, promise, race]
  \* ---- fragment merger (GypTargetBuilder) ----
  targetFragments,      \* the Map toolset -> fragment, as <<key, value>> pairs in insertion order
  this_targetName,      \* this.targetName
  this_targetType,      \* this.targetType
  mpc,                  \* "open" | "built" | "threw": the builder is abandoned once a method threw
  mErr,                 \* which throw statement was reached, "" when none
  mResult,              \* the GypTargets the finalizing method returned, <<>> when none
  mAdds,                \* the number of addTargetFragment calls made
  mLast,                \* history: the last call [op, fragment, outputs, before]
  \* ---- assembler (GypProject.fromGnProject, GypProjectBuilder) ----
  options,              \* GypProjectOptions: [gnRootTargetName, subprojects]
  apc,                  \* "idle" | "subproject" | "name" | "fragments" | "emptycc" | "done" | "error"
  subprojectIndex,      \* position of `for (const subproject of options.subprojects)`
  depNameIndex,         \* position of `for (const gnTargetDepName of filteredGnTargetDepNames)`
  gnTargetBuildConfigs, \* what the forEach of toGypTargets (the toolchain loop of
                        \* generateEmptyCCTarget) has still to visit
  subprojectTargets,    \* the `targets` array of the current subproject
  data,                 \* result.data: [name, file, targets] per output file
  aErr,                 \* which throw statement ended fromGnProject, "" when none
  translated,           \* history: [subproject, key, fragment] for every fragment translated
  \* ---- one call of a function that keeps no state ----
  calledFn,             \* which function is called, "" when none
  callArgs,             \* its arguments
  callDone,             \* whether the call has returned or thrown
  callResult            \* [err, value] once it has

closureVars == <<gnProject, gnRootTarget, cpc, gnBuildConfigQueue,
                 seenGnBuildConfigs, expanded, enqueued, fetched, pushes, closureResult>>

fetchVars == <<fBuilds, world, fpc, fetch, fResult>>

poolVars == <<poolMode, poolArg, poolSize, pendingPromises, promises, pcalls>>

mergerVars == <<targetFragments, this_targetName, this_targetType, mpc, mErr, mResult, mAdds, mLast>>

assembleVars == <<options, apc, subprojectIndex, depNameIndex, gnTargetBuildConfigs,
                  subprojectTargets, data, aErr, translated>>

callVars == <<calledFn, callArgs, callDone, callResult>>

vars == <<closureVars, fetchVars, poolVars, mergerVars, assembleVars, callVars>>

\* No function is being called.
CallsIdle ==
  /\ calledFn = ""
  /\ callArgs = <<>>
  /\ callDone = FALSE
  /\ callResult = <<>>

-----------------------------------------------------------------------------
(* Strings *)

\* JavaScript's undefined, as a value no string of the program equals.
UNDEF == <<"undefined-value">>

\* undefined, for a property whose other values are arrays of strings
UNDEF_ARRAY == <<UNDEF>>

\* !x for a string or undefined x
Falsy(x) == x = UNDEF \/ x = <<>>

StartsWith(s, p) == Len(s) >= Len(p) /\ SubSeq(s, 1, Len(p)) = p

EndsWith(s, p) == Len(s) >= Len(p) /\ SubSeq(s, Len(s) - Len(p) + 1, Len(s)) = p

\* String.prototype.indexOf for one character, 1-based, 0 when absent
IndexOf(s, c) ==
  IF \E i \in 1..Len(s) : s[i] = c
  THEN CHOOSE i \in 1..Len(s) : s[i] = c /\ \A j \in 1..(i - 1) : s[j] # c
  ELSE 0

SetMax(S) == CHOOSE m \in S : \A x \in S : x <= m

Range(s) == {s[i] : i \in 1..Len(s)}

TARGET_ALL == <<"/", "/", ":", "a", "l", "l">>

mac_debug == <<"m", "a", "c", "_", "d", "e", "b", "u", "g">>
mac_release == <<"m", "a", "c", "_", "r", "e", "l", "e", "a", "s", "e">>

\* The two GN toolchains of GypProjectBuilder.toolchainMap
GccLike ==
  <<"/", "/", "g", "n", "/", "s", "t", "a", "n", "d", "a", "l", "o", "n", "e", "/",
    "t", "o", "o", "l", "c", "h", "a", "i", "n", ":", "g", "c", "c", "_", "l", "i", "k", "e">>
GccLikeHost == GccLike \o <<"_", "h", "o", "s", "t">>

-----------------------------------------------------------------------------
(* gn.ts: target names *)

NoMatch == [ok |-> FALSE, path |-> <<>>, target |-> <<>>, toolchain |-> UNDEF]

\* targetName.match(/^\/\/([^:]*):([^:]*)(?:\((.*)\))?$/), with the regex
\* engine's backtracking: the path runs to the first colon; the target is the
\* longest colon-free run after it that leaves either nothing or a
\* parenthesised rest reaching the end of the string.
parseGnTargetName(targetName) ==
  IF ~StartsWith(targetName, <<"/", "/">>) THEN NoMatch
  ELSE LET rest == SubSeq(targetName, 3, Len(targetName))
           c == IndexOf(rest, ":")
       IN IF c = 0 THEN NoMatch
          ELSE LET file == SubSeq(rest, 1, c - 1)
                   after == SubSeq(rest, c + 1, Len(rest))
                   c2 == IndexOf(after, ":")
                   cand == {L \in 0..(c2 - 1) :
                              /\ L + 2 <= Len(after)
                              /\ after[L + 1] = "("
                              /\ after[Len(after)] = ")"}
               IN IF c2 = 0
                  THEN [ok |-> TRUE, path |-> file, target |-> after, toolchain |-> UNDEF]
                  ELSE IF cand = {} THEN NoMatch
                  ELSE LET L == SetMax(cand)
                       IN [ok |-> TRUE, path |-> file,
                           target |-> SubSeq(after, 1, L),
                           toolchain |-> SubSeq(after, L + 2, Len(after) - 1)]

\* `//${file}:${target}`
UnqualifiedName(file, tgt) == <<"/", "/">> \o file \o <<":">> \o tgt

\* `${targetName}(${toolchain})`
QualifiedName(targetName, toolchain) == targetName \o <<"(">> \o toolchain \o <<")">>

-----------------------------------------------------------------------------
(* gn.ts: GnBuild and GnProject *)

\* A GnTarget: [deps, type, toolchain].  A GnBuild: [targets, defaultToolchain],
\* targets a function from target names to GnTargets.  A GnProject:
\* [buildNames, builds], buildNames the Map's keys in insertion order.

\* GnBuild.deserialize: the default toolchain is the toolchain of //:all.
GnBuildOf(targets) ==
  [targets |-> targets, defaultToolchain |-> targets[TARGET_ALL].toolchain]

getDefaultToolchain(build) == build.defaultToolchain

\* GnBuild.deserialize of the Map entries <<name, target>>, in the Map's
\* order: the toolchains array lists one toolchain per target.
GnBuildFrom(entries) ==
  [targets |-> [n \in {entries[i][1] : i \in 1..Len(entries)} |->
                  entries[CHOOSE i \in 1..Len(entries) : entries[i][1] = n][2]],
   defaultToolchain |->
     entries[CHOOSE i \in 1..Len(entries) : entries[i][1] = TARGET_ALL][2].toolchain,
   toolchains |-> [i \in 1..Len(entries) |-> entries[i][2].toolchain]]

getToolchains(build) == build.toolchains

\* getTargetKey falling back on the name alone when nothing is stored
\* under the name with the toolchain
getTargetKeyEitherForm(build, toolchain, targetName) ==
  IF toolchain = build.defaultToolchain
       \/ QualifiedName(targetName, toolchain) \notin DOMAIN build.targets
  THEN targetName
  ELSE QualifiedName(targetName, toolchain)

\* The key GnBuild.getTarget looks up.
getTargetKey(build, toolchain, targetName) ==
  IF toolchain = build.defaultToolchain THEN targetName
  ELSE QualifiedName(targetName, toolchain)

\* hasTarget finding the targets of the default toolchain alone
hasTargetOfDefaultToolchain(build, toolchain, targetName) ==
  toolchain = build.defaultToolchain /\ targetName \in DOMAIN build.targets

\* GnBuild.getTarget throws exactly when this is FALSE.
hasTarget(build, toolchain, targetName) ==
  getTargetKey(build, toolchain, targetName) \in DOMAIN build.targets

getTarget(build, toolchain, targetName) ==
  build.targets[getTargetKey(build, toolchain, targetName)]

getBuildNames(project) == project.buildNames

getBuild(project, buildName) == project.builds[buildName]

-----------------------------------------------------------------------------
(* gn.ts: GypProjectBuilder.ignoreTargets *)

ignoreTargets(targetName) ==
  /\ StartsWith(targetName, <<"/", "/", "g", "n">>)
  /\ ~StartsWith(targetName, <<"/", "/", "g", "n", ":", "p", "r", "o", "t", "o", "c">>)

-----------------------------------------------------------------------------
(* gn.ts: the closure resolver GypProject.getAllGnTargetDeps *)

Key(name, build, toolchain) == [name |-> name, build |-> build, toolchain |-> toolchain]

\* DepKey with the build's default toolchain for an unqualified dependency
DepKeyDefaultToolchain(parsed, cur) ==
  Key(UnqualifiedName(parsed.path, parsed.target), cur.build,
      IF Falsy(parsed.toolchain)
      THEN getDefaultToolchain(getBuild(gnProject, cur.build))
      ELSE parsed.toolchain)

\* The key the resolver makes of one parsed dependency of the key cur
\* (gn.ts 972-979): `toolchain || gnBuildConfig.toolchain`.
DepKey(parsed, cur) ==
  Key(UnqualifiedName(parsed.path, parsed.target), cur.build,
      IF Falsy(parsed.toolchain) THEN cur.toolchain ELSE parsed.toolchain)

\* gnTarget.deps.map(...)
DepKeys(deps, cur) == [i \in 1..Len(deps) |-> DepKey(parseGnTargetName(deps[i]), cur)]

\* UnseenDeps comparing names only, not whole keys
UnseenDepsByName(keys, seen) ==
  SelectSeq(keys, LAMBDA k : k.name \notin {x.name : x \in Range(seen)})

\* .filter(dep => !seenGnBuildConfigs.has(JSON.stringify(dep)))
UnseenDeps(keys, seen) == SelectSeq(keys, LAMBDA k : k \notin Range(seen))

\* Set.prototype.add, keeping insertion order
SetAdd(seen, k) == IF k \in Range(seen) THEN seen ELSE Append(seen, k)

\* The seeds: one key per build, under the build's default toolchain.
Seeds(project, root) ==
  [i \in 1..Len(getBuildNames(project)) |->
     Key(root, getBuildNames(project)[i],
         getDefaultToolchain(getBuild(project, getBuildNames(project)[i])))]

otherThanClosure == <<fetchVars, poolVars, mergerVars, assembleVars, callVars>>
otherThanFetch == <<closureVars, poolVars, mergerVars, assembleVars, callVars>>
otherThanPool == <<closureVars, fetchVars, mergerVars, assembleVars, callVars>>
otherThanMerger == <<closureVars, fetchVars, poolVars, assembleVars, callVars>>
\* the assembler drives the builder, and reads what the resolver returned
otherThanAssemble == <<closureVars, fetchVars, poolVars, callVars>>
otherThanCalls == <<closureVars, fetchVars, poolVars, mergerVars, assembleVars>>

getAllGnTargetDeps_Start ==
  /\ cpc = "idle"
  /\ gnBuildConfigQueue' = Seeds(gnProject, gnRootTarget)
  /\ enqueued' = Range(Seeds(gnProject, gnRootTarget))
  /\ cpc' = "loop"
  /\ UNCHANGED <<gnProject, gnRootTarget, seenGnBuildConfigs, expanded, fetched, pushes,
                 closureResult>>
  /\ UNCHANGED otherThanClosure

\* One iteration of the while loop that runs to its end.
getAllGnTargetDeps_Iterate ==
  /\ cpc = "loop"
  /\ gnBuildConfigQueue # <<>>
  /\ LET cur == Head(gnBuildConfigQueue)
         build == getBuild(gnProject, cur.build)
         seen == SetAdd(seenGnBuildConfigs, cur)
     IN /\ hasTarget(build, cur.toolchain, cur.name)
        /\ LET gnTarget == getTarget(build, cur.toolchain, cur.name)
               mapped == DepKeys(gnTarget.deps, cur)
               deps == UnseenDeps(mapped, seen)
           IN /\ \A i \in 1..Len(gnTarget.deps) : parseGnTargetName(gnTarget.deps[i]).ok
              /\ pushes' = pushes \cup
                   {[from |-> cur, dep |-> gnTarget.deps[i], key |-> mapped[i]] :
                      i \in {j \in 1..Len(mapped) : mapped[j] \notin Range(seen)}}
              /\ seenGnBuildConfigs' = seen
              /\ gnBuildConfigQueue' = Tail(gnBuildConfigQueue) \o deps
              /\ expanded' = Append(expanded, cur)
              /\ enqueued' = enqueued \cup Range(deps)
              /\ fetched' = fetched \cup {<<cur.toolchain, cur.name>>}
  /\ UNCHANGED <<gnProject, gnRootTarget, cpc, closureResult>>
  /\ UNCHANGED otherThanClosure

\* One iteration that throws: GnBuild.getTarget finds no target, or
\* parseGnTargetName rejects a dependency.
getAllGnTargetDeps_Throw ==
  /\ cpc = "loop"
  /\ gnBuildConfigQueue # <<>>
  /\ LET cur == Head(gnBuildConfigQueue)
         build == getBuild(gnProject, cur.build)
     IN /\ \/ ~hasTarget(build, cur.toolchain, cur.name)
           \/ /\ hasTarget(build, cur.toolchain, cur.name)
              /\ \E i \in 1..Len(getTarget(build, cur.toolchain, cur.name).deps) :
                    ~parseGnTargetName(getTarget(build, cur.toolchain, cur.name).deps[i]).ok
        /\ seenGnBuildConfigs' = SetAdd(seenGnBuildConfigs, cur)
        /\ gnBuildConfigQueue' = Tail(gnBuildConfigQueue)
        /\ fetched' = fetched \cup {<<cur.toolchain, cur.name>>}
  /\ cpc' = "error"
  /\ UNCHANGED <<gnProject, gnRootTarget, expanded, enqueued, pushes, closureResult>>
  /\ UNCHANGED otherThanClosure

getAllGnTargetDeps_Return ==
  /\ cpc = "loop"
  /\ gnBuildConfigQueue = <<>>
  /\ closureResult' = seenGnBuildConfigs
  /\ cpc' = "done"
  /\ UNCHANGED <<gnProject, gnRootTarget, gnBuildConfigQueue, seenGnBuildConfigs,
                 expanded, enqueued, fetched, pushes>>
  /\ UNCHANGED otherThanClosure

-----------------------------------------------------------------------------
(* gn.ts: GnProject.fromDirectory and its helper getSingleTarget *)

\* the most getSingleTarget calls followed in one build
MaxCalls == 8

\* A Map as the sequence of its <<key, value>> entries in insertion order.
MapHas(m, k) == \E i \in 1..Len(m) : m[i][1] = k

MapGet(m, k) == m[CHOOSE i \in 1..Len(m) : m[i][1] = k][2]

MapSet(m, k, v) ==
  IF MapHas(m, k)
  THEN [i \in 1..Len(m) |-> IF m[i][1] = k THEN <<k, v>> ELSE m[i]]
  ELSE Append(m, <<k, v>>)

\* One call of `gn desc` and the promise `desc` made of it.
Invocation(t) == [target |-> t, state |-> "pending"]

\* One call of getSingleTarget: its argument, the call whose Promise.all
\* holds its promise (0: the build callback), the desc promise it awaits or
\* returns, and whether it made that promise itself.
Call(t, parent, desc, first) ==
  [target |-> t, parent |-> parent, desc |-> desc, first |-> first, state |-> "awaitDesc"]

\* The state of one build callback before anything ran.
EmptyFetch ==
  [inv |-> <<>>, known |-> <<>>, calls |-> <<>>, state |-> "awaitRoot",
   awaited |-> <<>>, desc |-> <<>>]

\* knownTargets.has, answering only for descriptions that have resolved
knownTargetsHasResolved(st, t) ==
  MapHas(st.known, t) /\ st.inv[MapGet(st.known, t)].state = "resolved"

\* knownTargets.has(target)
knownTargetsHas(st, t) == MapHas(st.known, t)

\* getSingleTarget up to its first await: return the cached promise, or
\* start `gn desc`, cache the pending promise and await it.
getSingleTarget(st, t, parent) ==
  IF knownTargetsHas(st, t)
  THEN [st EXCEPT !.calls = Append(@, Call(t, parent, MapGet(st.known, t), FALSE))]
  ELSE [st EXCEPT !.inv = Append(@, Invocation(t)),
                  !.known = MapSet(@, t, Len(st.inv) + 1),
                  !.calls = Append(@, Call(t, parent, Len(st.inv) + 1, TRUE))]

\* deps.map(getSingleTarget)
RECURSIVE mapGetSingleTarget(_, _, _)
mapGetSingleTarget(st, deps, parent) ==
  IF deps = <<>> THEN st
  ELSE mapGetSingleTarget(getSingleTarget(st, Head(deps), parent), Tail(deps), parent)

\* Promise.all over promises in the given states: rejected as soon as one
\* is, resolved once all are.
PromiseAll(states) ==
  IF "rejected" \in states THEN "rejected"
  ELSE IF states \subseteq {"resolved"} THEN "resolved"
  ELSE "pending"

\* getSingleTarget returning without awaiting its dependencies
DepsOutcomeNoWait(st, c) == "resolved"

\* Promise.all(deps.map(getSingleTarget)) of the call c
DepsOutcome(st, c) ==
  PromiseAll({st.calls[i].state : i \in {j \in 1..Len(st.calls) : st.calls[j].parent = c}})

\* Promise.all(Array.from(knownTargets.values())), over the promises the
\* map held when it was called
KnownOutcome(st) == PromiseAll({st.inv[st.awaited[i]].state : i \in 1..Len(st.awaited)})

\* The outer Promise.all leaving out the builds that failed
BuildsOutcomeSkipFailed(f) ==
  IF \A i \in 1..Len(f) : f[i].state \in {"resolved", "rejected"}
  THEN "resolved" ELSE "pending"

\* The outer Promise.all(builds.map(...))
BuildsOutcome(f) == PromiseAll({f[i].state : i \in 1..Len(f)})

\* The parsed output of the invocation i of build b.
DescOf(b, st, i) == (st.inv[i].target :> world[b][st.inv[i].target])

\* allTargets.sort(...).reduce(Object.assign): every description's entries.
MergeDescs(b, st) ==
  LET descs == {DescOf(b, st, st.awaited[i]) : i \in 1..Len(st.awaited)}
  IN [n \in UNION {DOMAIN d : d \in descs} |-> (CHOOSE d \in descs : n \in DOMAIN d)[n]]

fromDirectory_Start ==
  /\ fpc = "idle"
  /\ fpc' = "pending"
  /\ fetch' = [b \in 1..Len(fBuilds) |-> getSingleTarget(EmptyFetch, TARGET_ALL, 0)]
  /\ UNCHANGED <<fBuilds, world, fResult>>
  /\ UNCHANGED otherThanFetch

\* `gn desc` exits with output that parses.
execa_Resolves(b, i) ==
  /\ fetch[b].inv[i].state = "pending"
  /\ fetch' = [fetch EXCEPT ![b].inv[i].state = "resolved"]
  /\ UNCHANGED <<fBuilds, world, fpc, fResult>>
  /\ UNCHANGED otherThanFetch

\* `gn desc` fails, or its output does not parse.
execa_Rejects(b, i) ==
  /\ fetch[b].inv[i].state = "pending"
  /\ fetch' = [fetch EXCEPT ![b].inv[i].state = "rejected"]
  /\ UNCHANGED <<fBuilds, world, fpc, fResult>>
  /\ UNCHANGED otherThanFetch

\* A call that made its own desc resumes from `await desc` and calls
\* getSingleTarget for every dependency.
getSingleTarget_MapDeps(b, c) ==
  LET st == fetch[b]
      call == st.calls[c]
      deps == world[b][call.target].deps
  IN /\ call.state = "awaitDesc"
     /\ call.first
     /\ st.inv[call.desc].state = "resolved"
     /\ Len(st.calls) + Len(deps) <= MaxCalls
     /\ fetch' = [fetch EXCEPT ![b] =
           [mapGetSingleTarget(st, deps, c) EXCEPT !.calls[c].state = "awaitDeps"]]
     /\ UNCHANGED <<fBuilds, world, fpc, fResult>>
     /\ UNCHANGED otherThanFetch

\* getSingleTarget caching its own promise instead of desc: a repeated
\* request settles as the first call for the target does
getSingleTarget_AwaitsFirstCall(b, c) ==
  LET st == fetch[b]
      call == st.calls[c]
      firstCall == CHOOSE k \in 1..Len(st.calls) :
                     st.calls[k].target = call.target /\ st.calls[k].first
  IN /\ call.state = "awaitDesc"
     /\ \/ call.first /\ st.inv[call.desc].state = "rejected"
        \/ ~call.first /\ st.calls[firstCall].state \in {"resolved", "rejected"}
     /\ fetch' = [fetch EXCEPT ![b].calls[c].state =
                    IF call.first THEN "rejected" ELSE st.calls[firstCall].state]
     /\ UNCHANGED <<fBuilds, world, fpc, fResult>>
     /\ UNCHANGED otherThanFetch

\* A call that returned the cached promise settles as that promise does;
\* a call awaiting its own desc rejects when the desc does.
getSingleTarget_DescSettled(b, c) ==
  LET st == fetch[b]
      call == st.calls[c]
  IN /\ call.state = "awaitDesc"
     /\ \/ st.inv[call.desc].state = "rejected"
        \/ st.inv[call.desc].state = "resolved" /\ ~call.first
     /\ fetch' = [fetch EXCEPT ![b].calls[c].state = st.inv[call.desc].state]
     /\ UNCHANGED <<fBuilds, world, fpc, fResult>>
     /\ UNCHANGED otherThanFetch

\* A call resumes from `await Promise.all(...)`: it returns desc or rethrows.
getSingleTarget_DepsSettled(b, c) ==
  LET st == fetch[b]
  IN /\ st.calls[c].state = "awaitDeps"
     /\ DepsOutcome(st, c) # "pending"
     /\ fetch' = [fetch EXCEPT ![b].calls[c].state = DepsOutcome(st, c)]
     /\ UNCHANGED <<fBuilds, world, fpc, fResult>>
     /\ UNCHANGED otherThanFetch

\* The build callback resumes from `await getSingleTarget(TARGET_ALL)` and
\* awaits every promise knownTargets holds by then.
build_RootSettled(b) ==
  LET st == fetch[b]
  IN /\ st.state = "awaitRoot"
     /\ st.calls[1].state \in {"resolved", "rejected"}
     /\ fetch' = [fetch EXCEPT ![b] =
           IF st.calls[1].state = "rejected"
           THEN [st EXCEPT !.state = "rejected"]
           ELSE [st EXCEPT !.state = "awaitAll",
                           !.awaited = [i \in 1..Len(st.known) |-> st.known[i][2]]]]
     /\ UNCHANGED <<fBuilds, world, fpc, fResult>>
     /\ UNCHANGED otherThanFetch

\* The build callback resumes from `await Promise.all(...)` and returns the
\* merged description.
build_AllSettled(b) ==
  LET st == fetch[b]
  IN /\ st.state = "awaitAll"
     /\ KnownOutcome(st) # "pending"
     /\ fetch' = [fetch EXCEPT ![b] =
           IF KnownOutcome(st) = "rejected"
           THEN [st EXCEPT !.state = "rejected"]
           ELSE [st EXCEPT !.state = "resolved", !.desc = MergeDescs(b, st)]]
     /\ UNCHANGED <<fBuilds, world, fpc, fResult>>
     /\ UNCHANGED otherThanFetch

\* The builds whose description is at hand.
Described == SelectSeq([i \in 1..Len(fBuilds) |-> i], LAMBDA i : fetch[i].state = "resolved")

\* fromDirectory resumes from the outer `await Promise.all(...)`: it builds
\* the GnProject (GnBuild.deserialize throws without //:all) or rejects.
fromDirectory_Settled ==
  /\ fpc = "pending"
  /\ BuildsOutcome(fetch) # "pending"
  /\ IF /\ BuildsOutcome(fetch) = "resolved"
        /\ \A k \in 1..Len(Described) : TARGET_ALL \in DOMAIN fetch[Described[k]].desc
     THEN /\ fpc' = "resolved"
          /\ fResult' =
               [buildNames |-> [k \in 1..Len(Described) |-> fBuilds[Described[k]]],
                builds |-> [n \in {fBuilds[Described[k]] : k \in 1..Len(Described)} |->
                              GnBuildOf(fetch[CHOOSE i \in Range(Described) : fBuilds[i] = n].desc)]]
     ELSE /\ fpc' = "rejected"
          /\ UNCHANGED fResult
  /\ UNCHANGED <<fBuilds, world, fetch>>
  /\ UNCHANGED otherThanFetch

-----------------------------------------------------------------------------
(* util.ts: pool *)

\* the largest finite pool size tried
MaxPoolSize == 2
\* the most calls of the wrapper followed
MaxPoolCalls == 4

\* while (poolSize <= 0)
PoolFull(ps) == ps <= 0

\* the loop condition tested once only, before the first await
NotRechecked(ps) == FALSE

\* The loop condition evaluated again after `await preWork`.
StillFull(ps) == PoolFull(ps)

\* pendingPromises.splice(pendingPromises.indexOf(p), 1)
SpliceOut(arr, p) ==
  LET i == CHOOSE i \in 1..Len(arr) : arr[i] = p /\ \A j \in 1..(i - 1) : arr[j] # p
  IN SubSeq(arr, 1, i - 1) \o SubSeq(arr, i + 1, Len(arr))

\* Promise.race over the promises ps has settled.
RaceSettled(ps) == \E p \in ps : promises[p] # "pending"

\* pool(fn, n) for a finite n >= 1 returns the limiting wrapper.
pool_Create(n) ==
  /\ poolMode = "none"
  /\ n > 0
  /\ poolMode' = "limited"
  /\ poolArg' = n
  /\ poolSize' = n
  /\ UNCHANGED <<pendingPromises, promises, pcalls>>
  /\ UNCHANGED otherThanPool

\* pool(fn, n) for n <= 0 throws.
pool_CreateThrows(n) ==
  /\ poolMode = "none"
  /\ n <= 0
  /\ poolMode' = "threw"
  /\ poolArg' = n
  /\ UNCHANGED <<poolSize, pendingPromises, promises, pcalls>>
  /\ UNCHANGED otherThanPool

\* pool(fn, Infinity) returns fn itself.
pool_CreateUnlimited ==
  /\ poolMode = "none"
  /\ poolMode' = "unlimited"
  /\ UNCHANGED <<poolArg, poolSize, pendingPromises, promises, pcalls>>
  /\ UNCHANGED otherThanPool

\* The wrapper past its loop, for the call c: take a slot, call fn, record
\* its promise and await it.
StartFn(c) ==
  /\ poolSize' = poolSize - 1
  /\ promises' = Append(promises, "pending")
  /\ pendingPromises' = Append(pendingPromises, Len(promises) + 1)
  /\ pcalls' = [i \in 1..(IF c > Len(pcalls) THEN c ELSE Len(pcalls)) |->
                  IF i = c THEN [state |-> "running", promise |-> Len(promises) + 1, race |-> {}]
                  ELSE pcalls[i]]

\* The wrapper at `await preWork`, for the call c.
AwaitRace(c) ==
  /\ pcalls' = [i \in 1..(IF c > Len(pcalls) THEN c ELSE Len(pcalls)) |->
                  IF i = c THEN [state |-> "waiting", promise |-> 0, race |-> Range(pendingPromises)]
                  ELSE pcalls[i]]
  /\ UNCHANGED <<poolSize, promises, pendingPromises>>

\* A call of the limiting wrapper, up to its first await.
wrapper_Call ==
  /\ poolMode = "limited"
  /\ Len(pcalls) < MaxPoolCalls
  /\ IF PoolFull(poolSize) THEN AwaitRace(Len(pcalls) + 1) ELSE StartFn(Len(pcalls) + 1)
  /\ UNCHANGED <<poolMode, poolArg>>
  /\ UNCHANGED otherThanPool

\* A call of fn itself, when pool returned it unwrapped.
fn_CallUnlimited ==
  /\ poolMode = "unlimited"
  /\ Len(pcalls) < MaxPoolCalls
  /\ promises' = Append(promises, "pending")
  /\ pcalls' = Append(pcalls, [state |-> "running", promise |-> Len(promises) + 1, race |-> {}])
  /\ UNCHANGED <<poolMode, poolArg, poolSize, pendingPromises>>
  /\ UNCHANGED otherThanPool

fn_Resolves(p) ==
  /\ promises[p] = "pending"
  /\ promises' = [promises EXCEPT ![p] = "resolved"]
  /\ UNCHANGED <<poolMode, poolArg, poolSize, pendingPromises, pcalls>>
  /\ UNCHANGED otherThanPool

fn_Rejects(p) ==
  /\ promises[p] = "pending"
  /\ promises' = [promises EXCEPT ![p] = "rejected"]
  /\ UNCHANGED <<poolMode, poolArg, poolSize, pendingPromises, pcalls>>
  /\ UNCHANGED otherThanPool

\* A waiting call resumes from `await preWork` (the race settled, either
\* way) and evaluates the loop condition again.
wrapper_Wake(c) ==
  /\ poolMode = "limited"
  /\ pcalls[c].state = "waiting"
  /\ RaceSettled(pcalls[c].race)
  /\ IF StillFull(poolSize) THEN AwaitRace(c) ELSE StartFn(c)
  /\ UNCHANGED <<poolMode, poolArg>>
  /\ UNCHANGED otherThanPool

\* wrapper_Finish returning the slot after `return await` alone, with no
\* finally block: a rejection keeps the slot and the promise
wrapper_FinishWithoutFinally(c) ==
  /\ poolMode = "limited"
  /\ pcalls[c].state = "running"
  /\ promises[pcalls[c].promise] # "pending"
  /\ IF promises[pcalls[c].promise] = "resolved"
     THEN /\ poolSize' = poolSize + 1
          /\ pendingPromises' = SpliceOut(pendingPromises, pcalls[c].promise)
     ELSE UNCHANGED <<poolSize, pendingPromises>>
  /\ pcalls' = [pcalls EXCEPT ![c].state =
                  IF promises[pcalls[c].promise] = "resolved" THEN "returned" ELSE "threw"]
  /\ UNCHANGED <<poolMode, poolArg, promises>>
  /\ UNCHANGED otherThanPool

\* A running call resumes from `await pendingPromise`: the finally block
\* returns the slot and drops the promise, then the call returns or throws.
wrapper_Finish(c) ==
  /\ poolMode = "limited"
  /\ pcalls[c].state = "running"
  /\ promises[pcalls[c].promise] # "pending"
  /\ poolSize' = poolSize + 1
  /\ pendingPromises' = SpliceOut(pendingPromises, pcalls[c].promise)
  /\ pcalls' = [pcalls EXCEPT ![c].state =
                  IF promises[pcalls[c].promise] = "resolved" THEN "returned" ELSE "threw"]
  /\ UNCHANGED <<poolMode, poolArg, promises>>
  /\ UNCHANGED otherThanPool

-----------------------------------------------------------------------------
(* gn.ts: GypTargetBuilder *)

\* the most addTargetFragment calls made on one builder
MaxFragments == 3

\* A GypTarget: [target_name, type, toolsets, target_conditions, dependencies,
\* include_dirs, defines, sources, actions, outputs], with UNDEF (UNDEF_ARRAY
\* for toolsets, dependencies, include_dirs and defines, "" for type) for a
\* property the object does not have.
NoFragment ==
  [target_name |-> UNDEF, type |-> "", toolsets |-> UNDEF_ARRAY, target_conditions |-> UNDEF,
   dependencies |-> UNDEF_ARRAY, include_dirs |-> UNDEF_ARRAY, defines |-> UNDEF_ARRAY, sources |-> UNDEF, actions |-> UNDEF, outputs |-> UNDEF]

\* arr.reduce(removeDuplicates, [])
RECURSIVE removeDuplicates(_)
removeDuplicates(arr) ==
  IF arr = <<>> THEN <<>>
  ELSE LET acc == removeDuplicates(SubSeq(arr, 1, Len(arr) - 1))
           e == arr[Len(arr)]
       IN IF e \in Range(acc) THEN acc ELSE Append(acc, e)

\* getOnlyMappedValue, for the values already mapped: the only value, or a throw.
getOnlyMappedValue(mapped) ==
  LET results == removeDuplicates(mapped)
  IN IF Len(results) # 1 THEN [threw |-> TRUE, value |-> UNDEF]
     ELSE [threw |-> FALSE, value |-> results[1]]

\* a comparison of the lengths alone
arrayEqualsLengthOnly(a, b) == Len(a) = Len(b)

arrayEquals(a, b) ==
  /\ Len(a) = Len(b)
  /\ \A i \in 1..Len(a) : a[i] = b[i]

\* Array.from(map.keys()), Array.from(map.values())
MapKeys(m) == [i \in 1..Len(m) |-> m[i][1]]
MapValues(m) == [i \in 1..Len(m) |-> m[i][2]]

\* The builder after `new GypTargetBuilder()`.
MergerIdle ==
  /\ targetFragments = <<>>
  /\ this_targetName = <<>>
  /\ this_targetType = ""
  /\ mpc = "open"
  /\ mErr = ""
  /\ mResult = <<>>
  /\ mAdds = 0
  /\ mLast = [op |-> "new", fragment |-> NoFragment, outputs |-> UNDEF, before |-> <<>>]

\* What addTargetFragment(fragment, outputs) does to the builder: the throw
\* statement reached ("" when it returns) and the fields as it leaves them.
AddOutcome(fragment, outputs) ==
  LET unchanged(e) == [err |-> e, fragments |-> targetFragments,
                       name |-> this_targetName, type |-> this_targetType]
  IN IF fragment.toolsets = UNDEF_ARRAY \/ Len(fragment.toolsets) # 1
     THEN unchanged("should have only one toolset provided")
     ELSE IF fragment.target_conditions # UNDEF
     THEN unchanged("shouldn't have its own target conditions")
     ELSE LET toolchain == fragment.toolsets[1]
              saved == MapSet(targetFragments, toolchain, [fragment EXCEPT !.outputs = outputs])
              values == MapValues(saved)
              name == getOnlyMappedValue([i \in 1..Len(values) |-> values[i].target_name])
              type == getOnlyMappedValue([i \in 1..Len(values) |-> values[i].type])
          IN IF name.threw
             THEN [err |-> "getOnlyMappedValue", fragments |-> saved,
                   name |-> this_targetName, type |-> this_targetType]
             ELSE IF type.threw
             THEN [err |-> "getOnlyMappedValue", fragments |-> saved,
                   name |-> name.value, type |-> this_targetType]
             ELSE [err |-> "", fragments |-> saved, name |-> name.value, type |-> type.value]

\* The builder's fields after addTargetFragment(fragment, outputs).
Added(fragment, outputs) ==
  /\ LET o == AddOutcome(fragment, outputs)
     IN /\ targetFragments' = o.fragments
        /\ this_targetName' = o.name
        /\ this_targetType' = o.type
        /\ mErr' = o.err
        /\ mpc' = IF o.err = "" THEN "open" ELSE "threw"
  /\ mAdds' = mAdds + 1
  /\ mLast' = [op |-> "addTargetFragment", fragment |-> fragment, outputs |-> outputs,
               before |-> targetFragments]
  /\ UNCHANGED mResult

addTargetFragment(fragment, outputs) ==
  /\ mpc = "open"
  /\ mAdds < MaxFragments
  /\ Added(fragment, outputs)
  /\ UNCHANGED otherThanMerger

\* `#${build}`
SameBuildSuffix(build) == <<"#">> \o build

\* `_toolset=="${build}"`
ToolsetCondition(build) ==
  <<"_", "t", "o", "o", "l", "s", "e", "t", "=", "=", "\"">> \o build \o <<"\"">>

\* `${this.targetName}_proxy`
ProxyName(name) == name \o <<"_", "p", "r", "o", "x", "y">>

\* `<@(PRODUCT_DIR)/${this.targetName}_proxy`
ProxyProduct(name) ==
  <<"<", "@", "(", "P", "R", "O", "D", "U", "C", "T", "_", "D", "I", "R", ")", "/">>
    \o ProxyName(name)

\* (fragment.dependencies || [])
DependenciesOf(fragment) ==
  IF fragment.dependencies = UNDEF_ARRAY THEN <<>> ELSE fragment.dependencies

\* The map callback of buildTarget throws for some dependency of the build.
HasForeignDependency(fragments, build) ==
  LET deps == DependenciesOf(MapGet(fragments, build))
  IN \E i \in 1..Len(deps) : ~EndsWith(deps[i], SameBuildSuffix(build))

\* toolchainAgnosticDeps, when the callback does not throw
ToolchainAgnosticDeps(fragments, build) ==
  LET deps == DependenciesOf(MapGet(fragments, build))
  IN [i \in 1..Len(deps) |->
        SubSeq(deps[i], 1, Len(deps[i]) - Len(SameBuildSuffix(build)))]

\* the single fragment with its recorded outputs left on the result
SingleToolsetTargetKeepsOutputs(fragment, result) ==
  [fragment EXCEPT !.target_name = result.target_name, !.type = result.type,
                   !.toolsets = result.toolsets]

\* Object.assign({}, fragment, result) and `delete result.outputs`, for the
\* result {target_name, type, toolsets}.
SingleToolsetTarget(fragment, result) ==
  [fragment EXCEPT !.target_name = result.target_name, !.type = result.type,
                   !.toolsets = result.toolsets, !.outputs = UNDEF]

\* buildTarget(): the throw statement reached ("" when it returns) and the
\* GypTarget returned.
BuildTargetOutcome ==
  LET builds == MapKeys(targetFragments)
      result == [NoFragment EXCEPT !.target_name = this_targetName,
                                   !.type = this_targetType,
                                   !.toolsets = builds]
      \* the forEach callback throws at the build of index i
      throwsAt(i) ==
        \/ HasForeignDependency(targetFragments, builds[i])
        \/ /\ i > 1
           /\ ~arrayEquals(ToolchainAgnosticDeps(targetFragments, builds[1]),
                           ToolchainAgnosticDeps(targetFragments, builds[i]))
      failing == {i \in 1..Len(builds) : throwsAt(i)}
      first == CHOOSE i \in failing : \A j \in failing : i <= j
      targetForBuild(build) ==
        [MapGet(targetFragments, build) EXCEPT !.target_name = UNDEF, !.type = "",
           !.toolsets = UNDEF_ARRAY, !.dependencies = UNDEF_ARRAY, !.outputs = UNDEF]
  IN IF Len(builds) = 1
     THEN [err |-> "",
           target |-> SingleToolsetTarget(MapGet(targetFragments, builds[1]), result)]
     ELSE IF failing # {}
     THEN [err |-> IF HasForeignDependency(targetFragments, builds[first])
                   THEN "has a non-build dependency"
                   ELSE "has different dependencies for different toolchains",
           target |-> NoFragment]
     ELSE [err |-> "",
           target |-> [result EXCEPT
             !.target_conditions =
                [i \in 1..Len(builds) |->
                   <<ToolsetCondition(builds[i]), targetForBuild(builds[i])>>],
             !.dependencies =
                IF builds = <<>> THEN <<>>
                ELSE ToolchainAgnosticDeps(targetFragments, builds[1])]]

\* every toolset's action copying to the first toolset's output
ActionsForBuildFirstOutput(build) ==
  [NoFragment EXCEPT !.actions =
     <<[action_name |-> "copy_as_expected_output",
        action |-> <<"cp", "<@(_inputs)", "<@(_outputs)">>,
        inputs |-> <<ProxyProduct(this_targetName)>>,
        outputs |-> <<targetFragments[1][2].outputs[1]>>]>>]

\* One toolset's fields in buildProxyForExecutableTarget.
ActionsForBuild(build) ==
  [NoFragment EXCEPT !.actions =
     <<[action_name |-> "copy_as_expected_output",
        action |-> <<"cp", "<@(_inputs)", "<@(_outputs)">>,
        inputs |-> <<ProxyProduct(this_targetName)>>,
        outputs |-> <<MapGet(targetFragments, build).outputs[1]>>]>>]

\* a test for at least one output
NoOutputAtAll ==
  \E i \in 1..Len(targetFragments) :
     LET outputs == targetFragments[i][2].outputs
     IN outputs = UNDEF \/ Len(outputs) < 1

\* buildProxyForExecutableTarget throws: some toolset has not just one output.
NotJustOneOutput ==
  \E i \in 1..Len(targetFragments) :
     LET outputs == targetFragments[i][2].outputs
     IN outputs = UNDEF \/ Len(outputs) # 1

\* The facade target of buildProxyForExecutableTarget, when it does not throw.
buildProxyForExecutableTarget ==
  LET builds == MapKeys(targetFragments)
      result == [NoFragment EXCEPT !.target_name = this_targetName, !.type = "none",
                                   !.dependencies = <<ProxyName(this_targetName)>>,
                                   !.toolsets = builds]
  IN IF Len(builds) = 1
     THEN [result EXCEPT !.actions = ActionsForBuild(builds[1]).actions]
     ELSE [result EXCEPT !.target_conditions =
             [i \in 1..Len(builds) |->
                <<ToolsetCondition(builds[i]), ActionsForBuild(builds[i])>>]]

\* a wrapper covering the first toolset alone
buildProxyForFirstToolsetOnly ==
  [NoFragment EXCEPT !.target_name = this_targetName, !.type = "none",
                     !.dependencies = <<ProxyName(this_targetName)>>,
                     !.toolsets = <<MapKeys(targetFragments)[1]>>]

buildProxyForStaticLibraryTarget ==
  [NoFragment EXCEPT !.target_name = this_targetName, !.type = "none",
                     !.dependencies = <<ProxyName(this_targetName)>>,
                     !.toolsets = MapKeys(targetFragments)]

\* a builder that never finds itself empty
NeverEmpty == FALSE

\* if (!this.targetName || !this.targetType)
NoTargetsSpecified == Falsy(this_targetName) \/ this_targetType = ""

\* buildWithProxy(): the throw statement reached ("" when it returns) and the
\* GypTargets returned.
BuildWithProxyOutcome ==
  IF NoTargetsSpecified
  THEN [err |-> "No targets were specified", targets |-> <<>>]
  ELSE LET main == BuildTargetOutcome
           renamed == [main.target EXCEPT !.target_name = ProxyName(this_targetName)]
       IN IF main.err # "" THEN [err |-> main.err, targets |-> <<>>]
          ELSE IF this_targetType = "executable"
          THEN IF NotJustOneOutput
               THEN [err |-> "as an executable should have just one output", targets |-> <<>>]
               ELSE [err |-> "", targets |-> <<renamed, buildProxyForExecutableTarget>>]
          ELSE IF this_targetType = "static_library"
          THEN [err |-> "", targets |-> <<renamed, buildProxyForStaticLibraryTarget>>]
          ELSE [err |-> "", targets |-> <<main.target>>]

\* The builder's fields after a finalizing method that threw at err ("" when
\* it returned) or returned targets.
FinalizedBuilder(op, err, targets) ==
  /\ mpc' = IF err = "" THEN "built" ELSE "threw"
  /\ mErr' = err
  /\ mResult' = targets
  /\ mLast' = [op |-> op, fragment |-> NoFragment, outputs |-> UNDEF,
               before |-> targetFragments]
  /\ UNCHANGED <<targetFragments, this_targetName, this_targetType, mAdds>>

Finalized(op, err, targets) ==
  /\ FinalizedBuilder(op, err, targets)
  /\ UNCHANGED otherThanMerger

\* toGypTargets finalizes with buildWithProxy.
buildWithProxy ==
  /\ mpc = "open"
  /\ Finalized("buildWithProxy", BuildWithProxyOutcome.err, BuildWithProxyOutcome.targets)

\* generateEmptyCCTarget finalizes with buildTarget.
buildTarget ==
  /\ mpc = "open"
  /\ Finalized("buildTarget", BuildTargetOutcome.err,
               IF BuildTargetOutcome.err = "" THEN <<BuildTargetOutcome.target>> ELSE <<>>)

-----------------------------------------------------------------------------
(* gn.ts: the translation helpers of GypProjectBuilder *)

\* arr || [] for an optional array
OrEmpty(arr) == IF arr = UNDEF_ARRAY THEN <<>> ELSE arr

\* The first throw statement reached among errs, "" when none is.
FirstError(errs) ==
  IF \E i \in 1..Len(errs) : errs[i] # ""
  THEN errs[CHOOSE i \in 1..Len(errs) : errs[i] # "" /\ \A j \in 1..(i - 1) : errs[j] = ""]
  ELSE ""

\* String.prototype.replace(c, r) for one character: the first occurrence only
ReplaceFirst(str, c, r) ==
  IF IndexOf(str, c) = 0 THEN str
  ELSE [i \in 1..Len(str) |-> IF i = IndexOf(str, c) THEN r ELSE str[i]]

\* the while loop of gypifyTargetName: every occurrence of c
ReplaceEvery(str, c, r) == [i \in 1..Len(str) |-> IF str[i] = c THEN r ELSE str[i]]

gypifyTargetName(gnTargetName) ==
  LET cut == IF IndexOf(gnTargetName, "(") # 0
             THEN SubSeq(gnTargetName, 1, IndexOf(gnTargetName, "(") - 1)
             ELSE gnTargetName
      sliced == SubSeq(cut, 3, Len(cut))
  IN ReplaceEvery(ReplaceEvery(ReplaceFirst(sliced, ":", "_"), "/", "_"), "+", "_")

gypifyTargetType(gnType) ==
  CASE gnType = "source_set" -> "static_library"
    [] gnType \in {"group", "action", "action_foreach", "copy"} -> "none"
    [] OTHER -> gnType

SHARED_INTERMEDIATE_DIR == <<"<", "(", "S", "H", "A", "R", "E", "D", "_", "I", "N", "T", "E", "R", "M", "E", "D", "I", "A", "T", "E", "_", "D", "I", "R", ")">>

root_relative_to_gypfile == <<"<", "(", "r", "o", "o", "t", "_", "r", "e", "l", "a", "t", "i", "v", "e", "_", "t", "o", "_", "g", "y", "p", "f", "i", "l", "e", ")">>

\* gypifyPath testing for the project root before the out directory
gypifyPathRootFirst(gnBuildName, gnPath) ==
  LET outPrefix == <<"/", "/", "o", "u", "t", "/">> \o gnBuildName \o <<"/">>
  IN IF StartsWith(gnPath, <<"/", "/">>)
     THEN [err |-> "", value |-> root_relative_to_gypfile \o <<"/">>
                                   \o SubSeq(gnPath, 3, Len(gnPath))]
     ELSE IF StartsWith(gnPath, outPrefix)
     THEN [err |-> "", value |-> SHARED_INTERMEDIATE_DIR \o <<"/">>
                                   \o SubSeq(gnPath, Len(outPrefix) + 1, Len(gnPath))]
     ELSE [err |-> "Unexpected path", value |-> UNDEF]

\* gypifyPath: [err, value]
gypifyPath(gnBuildName, gnPath) ==
  LET outPrefix == <<"/", "/", "o", "u", "t", "/">> \o gnBuildName \o <<"/">>
  IN IF StartsWith(gnPath, outPrefix)
     THEN [err |-> "", value |-> SHARED_INTERMEDIATE_DIR \o <<"/">>
                                   \o SubSeq(gnPath, Len(outPrefix) + 1, Len(gnPath))]
     ELSE IF StartsWith(gnPath, <<"/", "/">>)
     THEN [err |-> "", value |-> root_relative_to_gypfile \o <<"/">>
                                   \o SubSeq(gnPath, 3, Len(gnPath))]
     ELSE [err |-> "Unexpected path", value |-> UNDEF]

\* cflags[i].match(/^-[Ii]/)
IsIncludeFlag(flag) == Len(flag) >= 2 /\ flag[1] = "-" /\ flag[2] \in {"I", "i"}

\* extractIncludes: [err, value]
extractIncludes(cflags) ==
  LET at == SelectSeq([i \in 1..Len(cflags) |-> i], LAMBDA i : IsIncludeFlag(cflags[i]))
  IN IF \E k \in 1..Len(at) : at[k] = Len(cflags)
     THEN [err |-> "Unexpected value for last cflag", value |-> <<>>]
     ELSE [err |-> "", value |-> [k \in 1..Len(at) |-> cflags[at[k] + 1]]]

\* Names every object literal inherits from Object.prototype: toolchainMap[name]
\* is a function or an object for them, never undefined.
ObjectPrototypeNames ==
  {<<"c", "o", "n", "s", "t", "r", "u", "c", "t", "o", "r">>,
   <<"t", "o", "S", "t", "r", "i", "n", "g">>,
   <<"v", "a", "l", "u", "e", "O", "f">>}

\* The member of Object.prototype of that name, which is no string.
InheritedMember(name) ==
  <<"O", "b", "j", "e", "c", "t", ".", "p", "r", "o", "t", "o", "t", "y", "p", "e", ".">> \o name

\* GypProjectBuilder.toolchainMap[gnToolchain]: an own key, else a member
\* inherited from Object.prototype, else undefined
ToolchainMapEntry(gnToolchain) ==
  IF gnToolchain = GccLikeHost THEN <<"h", "o", "s", "t">>
  ELSE IF gnToolchain = GccLike THEN <<"t", "a", "r", "g", "e", "t">>
  ELSE IF gnToolchain \in ObjectPrototypeNames THEN InheritedMember(gnToolchain)
  ELSE UNDEF

\* toGypToolset: [err, value]
toGypToolset(gnToolchain) ==
  IF Falsy(gnToolchain)
  THEN [err |-> "Can't resolve toolchain with no information", value |-> UNDEF]
  ELSE IF ToolchainMapEntry(gnToolchain) = UNDEF
  THEN [err |-> "Unrecognized GN toolchain", value |-> UNDEF]
  ELSE [err |-> "", value |-> ToolchainMapEntry(gnToolchain)]

\* getGenDirectoryForToolset: [err, value]
getGenDirectoryForToolset(cfg) ==
  IF cfg.toolchain # getDefaultToolchain(getBuild(gnProject, cfg.build))
  THEN IF parseGnTargetName(cfg.toolchain).ok
       THEN [err |-> "", value |-> SHARED_INTERMEDIATE_DIR \o <<"/">>
                                     \o parseGnTargetName(cfg.toolchain).target]
       ELSE [err |-> "A target name doesn't match the expected regex", value |-> UNDEF]
  ELSE [err |-> "", value |-> SHARED_INTERMEDIATE_DIR]

\* subProject.predicate(name): a predicate is given by the names it accepts.
predicate(subproject, name) == name \in subproject.accepts

\* subproject.setNewPath(path): the rewrites configured leave every path alone.
setNewPath(subproject, path) == path

\* options.correctPathForCFlagInclude, configured to leave the include alone
correctPathForCFlagInclude(include) == include

\* options.correctPathsForScriptArgs, configured to leave the arguments alone
correctPathsForScriptArgs(script, args) == args

\* getSubproject: [err, value]
getSubproject(name) ==
  LET matchingSubprojects == SelectSeq(options.subprojects, LAMBDA sp : predicate(sp, name))
  IN IF Len(matchingSubprojects) # 1
     THEN [err |-> "Expected to belong to one subproject", value |-> UNDEF]
     ELSE [err |-> "", value |-> matchingSubprojects[1]]

RECURSIVE applySubprojectPathTransformsFrom(_, _)
applySubprojectPathTransformsFrom(i, path) ==
  IF i > Len(options.subprojects) THEN path
  ELSE applySubprojectPathTransformsFrom(i + 1, setNewPath(options.subprojects[i], path))

applySubprojectPathTransforms(path) == applySubprojectPathTransformsFrom(1, path)

\* boundGypifyPath over an array: [err, value]
boundGypifyPaths(gnBuildName, paths) ==
  [err |-> FirstError([i \in 1..Len(paths) |-> gypifyPath(gnBuildName, paths[i]).err]),
   value |-> [i \in 1..Len(paths) |->
                applySubprojectPathTransforms(gypifyPath(gnBuildName, paths[i]).value)]]

\* boundParseGnTargetName: a missing toolchain becomes the default toolchain
\* of the build.
boundParseGnTargetName(dep, cfg) ==
  LET parsed == parseGnTargetName(dep)
  IN IF Falsy(parsed.toolchain)
     THEN [parsed EXCEPT !.toolchain = getDefaultToolchain(getBuild(gnProject, cfg.build))]
     ELSE parsed

\* `${subproject.file}:` when the dependency is of another subproject
DependencyPrefix(subproject, subprojectName) ==
  IF subproject.name # subprojectName THEN subproject.file \o <<":">> ELSE <<>>

\* The callback of gnTarget.deps.map in toGypTargetFragment: [err, value]
DependencyName(gnDep, subprojectName, cfg) ==
  LET parsed == boundParseGnTargetName(gnDep, cfg)
      plain == UnqualifiedName(parsed.path, parsed.target)
      subproject == getSubproject(plain)
      toolset == toGypToolset(parsed.toolchain)
  IN IF ~parsed.ok
     THEN [err |-> "A target name doesn't match the expected regex", value |-> UNDEF]
     ELSE IF subproject.err # "" THEN [err |-> subproject.err, value |-> UNDEF]
     ELSE IF toolset.err # "" THEN [err |-> toolset.err, value |-> UNDEF]
     ELSE [err |-> "",
           value |-> DependencyPrefix(subproject.value, subprojectName)
                       \o gypifyTargetName(plain) \o <<"#">> \o toolset.value]

\* fragment.dependencies of the Dependencies block: [err, value]
FragmentDependencies(gnTarget, subprojectName, cfg) ==
  LET deps == SelectSeq(gnTarget.deps, LAMBDA name : ~ignoreTargets(name))
      mapped == [i \in 1..Len(deps) |-> DependencyName(deps[i], subprojectName, cfg)]
  IN [err |-> FirstError([i \in 1..Len(deps) |-> mapped[i].err]),
      value |-> [i \in 1..Len(deps) |-> mapped[i].value]]

\* fragment.include_dirs of the Include Directories block: [err, value]
FragmentIncludeDirs(gnTarget, cfg) ==
  LET declared == boundGypifyPaths(cfg.build, OrEmpty(gnTarget.include_dirs))
      scraped == extractIncludes(OrEmpty(gnTarget.cflags))
      rooted(path) ==
        IF StartsWith(path, <<".", ".", "/">>)
        THEN root_relative_to_gypfile \o <<"/">> \o SubSeq(path, 4, Len(path))
        ELSE path
  IN [err |-> FirstError(<<declared.err, scraped.err>>),
      value |-> removeDuplicates(
        declared.value \o
        [i \in 1..Len(scraped.value) |->
           applySubprojectPathTransforms(rooted(correctPathForCFlagInclude(scraped.value[i])))])]

\* gypifyPath over the outputs of toGypTargets, with no subproject rewrite:
\* [err, value]
gypifyOutputs(gnBuildName, paths) ==
  [err |-> FirstError([i \in 1..Len(paths) |-> gypifyPath(gnBuildName, paths[i]).err]),
   value |-> [i \in 1..Len(paths) |-> gypifyPath(gnBuildName, paths[i]).value]]

\* a test for any source at all
HasAnySource(sources) == sources # <<>>

\* sources.some(source => source.endsWith('.cc'))
HasCompiledSource(sources) ==
  \E i \in 1..Len(sources) : EndsWith(sources[i], <<".", "c", "c">>)

\* The static library of the Sources block needs the placeholder source.
NeedsEmptyCC(targetType, sources) ==
  targetType = "static_library" /\ ~HasCompiledSource(sources)

\* `${this.getGenDirectoryForToolset(gnTargetBuildConfig)}/gen/empty.cc`
EmptyCCSource(genDirectory) == genDirectory \o <<"/", "g", "e", "n", "/", "e", "m", "p", "t", "y", ".", "c", "c">>

\* `./empty.gyp:gen_empty_cc#${targetToolset}`
EmptyCCDependency(targetToolset) ==
  <<".", "/", "e", "m", "p", "t", "y", ".", "g", "y", "p", ":", "g", "e", "n", "_", "e", "m", "p", "t", "y", "_", "c", "c", "#">> \o targetToolset

\* fragment.actions of the Action block: [err, value]
FragmentActions(gnTarget, targetName, cfg) ==
  LET actionName == targetName \o <<"_", "a", "c", "t", "i", "o", "n">>
      sources == boundGypifyPaths(cfg.build, OrEmpty(gnTarget.sources))
      outputs == boundGypifyPaths(cfg.build, OrEmpty(gnTarget.outputs))
      metaInputs == boundGypifyPaths(cfg.build,
                      OrEmpty(gnTarget.inputs) \o OrEmpty(gnTarget.sources))
      script == boundGypifyPaths(cfg.build, <<gnTarget.script>>)
  IN CASE gnTarget.type = "action" ->
            IF Falsy(gnTarget.script)
            THEN [err |-> "is an action but has no script", value |-> UNDEF]
            ELSE [err |-> FirstError(<<metaInputs.err, outputs.err, script.err>>),
                  value |-> <<[action_name |-> actionName,
                               inputs |-> metaInputs.value,
                               outputs |-> outputs.value,
                               action |->
                                 (IF EndsWith(gnTarget.script, <<".", "p", "y">>)
                                  THEN <<<<"p", "y", "t", "h", "o", "n">>>> ELSE <<>>)
                                 \o script.value
                                 \o correctPathsForScriptArgs(gnTarget.script,
                                                              OrEmpty(gnTarget.args))]>>]
       [] gnTarget.type = "action_foreach" ->
            [err |-> "action_foreach is untested", value |-> UNDEF]
       [] gnTarget.type = "copy" ->
            [err |-> FirstError(<<sources.err, outputs.err>>),
             value |-> <<[action_name |-> actionName,
                          inputs |-> sources.value,
                          outputs |-> outputs.value,
                          action |-> <<<<"c", "p">>,
                                       <<"<", "@", "(", "_", "i", "n", "p", "u", "t", "s", ")">>,
                                       <<"<", "@", "(", "_", "o", "u", "t", "p", "u", "t", "s", ")">>>>]>>]
       [] OTHER -> [err |-> "", value |-> UNDEF]

\* toGypTargetFragment(subprojectName, gnTarget, gnTargetBuildConfig): the
\* throw statement reached ("" when it returns) and the fragment returned.
toGypTargetFragment(subprojectName, gnTarget, cfg) ==
  LET targetName == gypifyTargetName(cfg.name)
      targetToolset == toGypToolset(cfg.toolchain)
      gypType == gypifyTargetType(gnTarget.type)
      isRoot == cfg.name = options.gnRootTargetName
      \* the local targetType and fragment.type after the root override
      targetType == IF isRoot THEN "static_library" ELSE gypType
      fragmentType == IF isRoot THEN "<(library)" ELSE gypType
      dependencies == FragmentDependencies(gnTarget, subprojectName, cfg)
      includeDirs == FragmentIncludeDirs(gnTarget, cfg)
      sources == boundGypifyPaths(cfg.build, OrEmpty(gnTarget.sources))
      genDirectory == getGenDirectoryForToolset(cfg)
      needsEmptyCC == NeedsEmptyCC(targetType, sources.value)
      actions == FragmentActions(gnTarget, targetName, cfg)
      err == FirstError(<<
        IF gnTarget.type = "" THEN "has no type" ELSE "",
        targetToolset.err,
        IF isRoot /\ gypType \notin {"shared_library", "static_library"}
        THEN "Root target must be a shared or static library" ELSE "",
        dependencies.err,
        includeDirs.err,
        sources.err,
        IF sources.err = "" /\ needsEmptyCC THEN genDirectory.err ELSE "",
        actions.err>>)
  IN IF err # "" THEN [err |-> err, fragment |-> NoFragment]
     ELSE [err |-> "",
           fragment |->
             [NoFragment EXCEPT
                !.target_name = targetName,
                !.type = fragmentType,
                !.toolsets = <<targetToolset.value>>,
                !.dependencies =
                   IF needsEmptyCC
                   THEN Append(dependencies.value, EmptyCCDependency(targetToolset.value))
                   ELSE dependencies.value,
                !.include_dirs = includeDirs.value,
                !.defines = OrEmpty(gnTarget.defines),
                !.sources =
                   IF needsEmptyCC
                   THEN Append(sources.value, EmptyCCSource(genDirectory.value))
                   ELSE sources.value,
                !.actions = actions.value]]

-----------------------------------------------------------------------------
(* gn.ts: GypProject.fromGnProject, GypProjectBuilder.toGypTargets and
   GypProjectBuilder.generateEmptyCCTarget *)

\* gnTargetDeps.map(dep => dep.name).reduce(removeDuplicates, [])
gnTargetDepNames ==
  removeDuplicates([i \in 1..Len(closureResult) |-> closureResult[i].name])

\* gnTargetDepNames.filter(subproject.predicate)
filteredGnTargetDepNames(subproject) ==
  SelectSeq(gnTargetDepNames, LAMBDA name : predicate(subproject, name))

\* `new GypTargetBuilder()`
NewBuilder ==
  /\ targetFragments' = <<>>
  /\ this_targetName' = <<>>
  /\ this_targetType' = ""
  /\ mpc' = "open"
  /\ mErr' = ""
  /\ mResult' = <<>>
  /\ mAdds' = 0
  /\ mLast' = [op |-> "new", fragment |-> NoFragment, outputs |-> UNDEF, before |-> <<>>]

\* An exception leaves fromGnProject.
Thrown(err) ==
  /\ apc' = "error"
  /\ aErr' = err

\* getAllGnTargetDeps threw.
fromGnProject_ClosureThrew ==
  /\ apc = "idle"
  /\ cpc = "error"
  /\ Thrown("getAllGnTargetDeps")
  /\ UNCHANGED <<options, subprojectIndex, depNameIndex, gnTargetBuildConfigs,
                 subprojectTargets, data, translated>>
  /\ UNCHANGED mergerVars
  /\ UNCHANGED otherThanAssemble

\* getAllGnTargetDeps returned: on to the loop over the subprojects.
fromGnProject_Closure ==
  /\ apc = "idle"
  /\ cpc = "done"
  /\ apc' = "subproject"
  /\ subprojectIndex' = 1
  /\ UNCHANGED <<options, depNameIndex, gnTargetBuildConfigs, subprojectTargets, data,
                 aErr, translated>>
  /\ UNCHANGED mergerVars
  /\ UNCHANGED otherThanAssemble

\* The head of the loop over the subprojects, for one more subproject.
fromGnProject_Subproject ==
  /\ apc = "subproject"
  /\ subprojectIndex <= Len(options.subprojects)
  /\ apc' = "name"
  /\ depNameIndex' = 1
  /\ subprojectTargets' = <<>>
  /\ UNCHANGED <<options, subprojectIndex, gnTargetBuildConfigs, data, aErr, translated>>
  /\ UNCHANGED mergerVars
  /\ UNCHANGED otherThanAssemble

\* The names of the subproject are done: result.data.push.
fromGnProject_PushSubproject ==
  /\ apc = "name"
  /\ LET subproject == options.subprojects[subprojectIndex]
     IN /\ depNameIndex > Len(filteredGnTargetDepNames(subproject))
        /\ data' = Append(data, [name |-> subproject.name, file |-> subproject.file,
                                 targets |-> subprojectTargets])
  /\ subprojectIndex' = subprojectIndex + 1
  /\ apc' = "subproject"
  /\ UNCHANGED <<options, depNameIndex, gnTargetBuildConfigs, subprojectTargets, aErr,
                 translated>>
  /\ UNCHANGED mergerVars
  /\ UNCHANGED otherThanAssemble

\* toGypTargets for the next name of the subproject, up to its forEach: an
\* ignored name gives no targets, any other a new builder and the
\* mac_debug keys of the name.
toGypTargets_Start ==
  /\ apc = "name"
  /\ LET subproject == options.subprojects[subprojectIndex]
         names == filteredGnTargetDepNames(subproject)
     IN /\ depNameIndex <= Len(names)
        /\ LET name == names[depNameIndex]
               configs == SelectSeq(closureResult, LAMBDA k : k.name = name)
           IN IF ignoreTargets(configs[1].name)
              THEN /\ depNameIndex' = depNameIndex + 1
                   /\ UNCHANGED <<apc, gnTargetBuildConfigs>>
                   /\ UNCHANGED mergerVars
              ELSE /\ NewBuilder
                   /\ gnTargetBuildConfigs' =
                        SelectSeq(configs, LAMBDA k : k.build = mac_debug)
                   /\ apc' = "fragments"
                   /\ UNCHANGED depNameIndex
  /\ UNCHANGED <<options, subprojectIndex, subprojectTargets, data, aErr, translated>>
  /\ UNCHANGED otherThanAssemble

\* One turn of the forEach of toGypTargets: getTarget, toGypTargetFragment,
\* the outputs through gypifyPath, addTargetFragment.
toGypTargets_AddFragment ==
  /\ apc = "fragments"
  /\ gnTargetBuildConfigs # <<>>
  /\ LET cfg == Head(gnTargetBuildConfigs)
         build == getBuild(gnProject, cfg.build)
         subproject == options.subprojects[subprojectIndex]
     IN IF ~hasTarget(build, cfg.toolchain, cfg.name)
        THEN /\ Thrown("No target with toolchain")
             /\ UNCHANGED mergerVars
             /\ UNCHANGED translated
        ELSE \E gnTarget \in {getTarget(build, cfg.toolchain, cfg.name)} :
             \E t \in {toGypTargetFragment(subproject.name, gnTarget, cfg)} :
             \E outputs \in {gypifyOutputs(cfg.build, OrEmpty(gnTarget.outputs))} :
                IF t.err # ""
                THEN /\ Thrown(t.err)
                     /\ UNCHANGED mergerVars
                     /\ UNCHANGED translated
                ELSE /\ translated' = Append(translated,
                          [subproject |-> subproject.name, key |-> cfg, fragment |-> t.fragment])
                     /\ IF outputs.err # ""
                        THEN /\ Thrown(outputs.err)
                             /\ UNCHANGED mergerVars
                        ELSE /\ Added(t.fragment, outputs.value)
                             /\ IF AddOutcome(t.fragment, outputs.value).err # ""
                                THEN Thrown(AddOutcome(t.fragment, outputs.value).err)
                                ELSE UNCHANGED <<apc, aErr>>
  /\ gnTargetBuildConfigs' = Tail(gnTargetBuildConfigs)
  /\ UNCHANGED <<options, subprojectIndex, depNameIndex, subprojectTargets, data>>
  /\ UNCHANGED otherThanAssemble

\* The forEach of toGypTargets is over: buildWithProxy, and targets.push.
toGypTargets_Build ==
  /\ apc = "fragments"
  /\ gnTargetBuildConfigs = <<>>
  /\ FinalizedBuilder("buildWithProxy", BuildWithProxyOutcome.err, BuildWithProxyOutcome.targets)
  /\ IF BuildWithProxyOutcome.err # ""
     THEN /\ Thrown(BuildWithProxyOutcome.err)
          /\ UNCHANGED <<subprojectTargets, depNameIndex>>
     ELSE /\ subprojectTargets' = subprojectTargets \o BuildWithProxyOutcome.targets
          /\ depNameIndex' = depNameIndex + 1
          /\ apc' = "name"
          /\ UNCHANGED aErr
  /\ UNCHANGED <<options, subprojectIndex, gnTargetBuildConfigs, data, translated>>
  /\ UNCHANGED otherThanAssemble

\* The {build, toolchain} pairs the loops of generateEmptyCCTarget visit.
RECURSIVE EmptyCCConfigs(_)
EmptyCCConfigs(buildNames) ==
  IF buildNames = <<>> THEN <<>>
  ELSE (IF Head(buildNames) # mac_debug THEN <<>>
        ELSE LET toolchains == getToolchains(getBuild(gnProject, Head(buildNames)))
             IN [i \in 1..Len(toolchains) |->
                   [build |-> Head(buildNames), toolchain |-> toolchains[i]]])
       \o EmptyCCConfigs(Tail(buildNames))

\* The subprojects are done: generateEmptyCCTarget, up to its loops.
generateEmptyCCTarget_Start ==
  /\ apc = "subproject"
  /\ subprojectIndex > Len(options.subprojects)
  /\ NewBuilder
  /\ gnTargetBuildConfigs' = EmptyCCConfigs(getBuildNames(gnProject))
  /\ apc' = "emptycc"
  /\ UNCHANGED <<options, subprojectIndex, depNameIndex, subprojectTargets, data, aErr,
                 translated>>
  /\ UNCHANGED otherThanAssemble

gen_empty_cc == <<"g", "e", "n", "_", "e", "m", "p", "t", "y", "_", "c", "c">>

\* The fragment generateEmptyCCTarget adds for one toolset and output.
EmptyCCFragment(toolset, output) ==
  [NoFragment EXCEPT
     !.target_name = gen_empty_cc,
     !.type = "none",
     !.actions = <<[action_name |-> "gen_empty_cc_action",
                    inputs |-> <<>>,
                    outputs |-> <<output>>,
                    action |-> <<<<"t", "o", "u", "c", "h">>, <<"-", "a">>, output>>]>>,
     !.toolsets = <<toolset>>]

\* One turn of the inner loop of generateEmptyCCTarget.
generateEmptyCCTarget_AddFragment ==
  /\ apc = "emptycc"
  /\ gnTargetBuildConfigs # <<>>
  /\ LET cfg == Head(gnTargetBuildConfigs)
         genDirectory == getGenDirectoryForToolset(cfg)
         toolset == toGypToolset(cfg.toolchain)
         fragment == EmptyCCFragment(toolset.value, EmptyCCSource(genDirectory.value))
     IN IF genDirectory.err # ""
        THEN Thrown(genDirectory.err) /\ UNCHANGED mergerVars
        ELSE IF toolset.err # ""
        THEN Thrown(toolset.err) /\ UNCHANGED mergerVars
        ELSE /\ Added(fragment, UNDEF)
             /\ IF AddOutcome(fragment, UNDEF).err # ""
                THEN Thrown(AddOutcome(fragment, UNDEF).err)
                ELSE UNCHANGED <<apc, aErr>>
  /\ gnTargetBuildConfigs' = Tail(gnTargetBuildConfigs)
  /\ UNCHANGED <<options, subprojectIndex, depNameIndex, subprojectTargets, data, translated>>
  /\ UNCHANGED otherThanAssemble

\* The loops of generateEmptyCCTarget are over: buildTarget, the last
\* result.data.push, and fromGnProject returns.
generateEmptyCCTarget_Build ==
  /\ apc = "emptycc"
  /\ gnTargetBuildConfigs = <<>>
  /\ FinalizedBuilder("buildTarget", BuildTargetOutcome.err,
                      IF BuildTargetOutcome.err = "" THEN <<BuildTargetOutcome.target>> ELSE <<>>)
  /\ IF BuildTargetOutcome.err # ""
     THEN Thrown(BuildTargetOutcome.err) /\ UNCHANGED data
     ELSE /\ data' = Append(data, [name |-> <<"e", "m", "p", "t", "y">>,
                                   file |-> <<"e", "m", "p", "t", "y", ".", "g", "y", "p">>,
                                   targets |-> <<BuildTargetOutcome.target>>])
          /\ apc' = "done"
          /\ UNCHANGED aErr
  /\ UNCHANGED <<options, subprojectIndex, depNameIndex, gnTargetBuildConfigs,
                 subprojectTargets, translated>>
  /\ UNCHANGED otherThanAssemble

-----------------------------------------------------------------------------
(* The projects the resolver is run on *)

\* the longest dependency list of the root target
MaxDeps == 2

SeqsUpTo(S, n) == UNION {[1..k -> S] : k \in 0..n}

RootName == <<"/", "/", ":", "r">>
NameX == <<"/", "/", "a", ":", "x">>
NameG == <<"/", "/", "g", "n", ":", "g">>
\* a dependency string parseGnTargetName rejects (no colon)
BadName == <<"/", "/", "a">>

\* A GnTarget of the given deps, type and toolchain, with no other property.
GnTarget(deps, type, toolchain) ==
  [deps |-> deps, type |-> type, toolchain |-> toolchain,
   sources |-> UNDEF_ARRAY, outputs |-> UNDEF_ARRAY, include_dirs |-> UNDEF_ARRAY,
   cflags |-> UNDEF_ARRAY, defines |-> UNDEF_ARRAY, inputs |-> UNDEF_ARRAY,
   args |-> UNDEF_ARRAY, script |-> UNDEF]

DepStrings == {NameX, QualifiedName(NameX, GccLikeHost), NameG}

\* Build mac_debug: default toolchain gcc_like; //a:x and //gn:g also exist
\* under gcc_like_host, the root does not.
DebugBuild(dr, dx, dg, dh) ==
  GnBuildOf(
     (TARGET_ALL :> GnTarget(<<>>, "group", GccLike)) @@
     (RootName :> GnTarget(dr, "static_library", GccLike)) @@
     (NameX :> GnTarget(dx, "source_set", GccLike)) @@
     (NameG :> GnTarget(dg, "executable", GccLike)) @@
     (QualifiedName(NameX, GccLikeHost) :> GnTarget(dh, "source_set", GccLikeHost)) @@
     (QualifiedName(NameG, GccLikeHost) :> GnTarget(<<>>, "executable", GccLikeHost)))

DebugBuilds ==
  {DebugBuild(dr, dx, dg, dh) :
   dr \in SeqsUpTo(DepStrings, MaxDeps),
   dx \in {<<>>, <<NameX>>, <<NameG>>, <<QualifiedName(NameX, GccLikeHost)>>,
           <<NameG, QualifiedName(NameX, GccLikeHost)>>,
           <<QualifiedName(NameX, GccLikeHost), NameG>>},
   dg \in {<<>>, <<NameX>>, <<QualifiedName(NameX, GccLikeHost)>>},
   dh \in {<<>>, <<NameG>>, <<RootName>>, <<BadName>>, <<QualifiedName(NameX, GccLike)>>}}

\* The builds with a self-dependency or a cycle among them: //a:x on
\* itself, //a:x and //gn:g on each other, //a:x and its host variant on
\* each other; the host variant may also refer to a root that does not
\* exist under its toolchain.
CyclicDebugBuilds ==
  {DebugBuild(dr, dx, dg, dh) :
   dr \in {<<NameX>>, <<QualifiedName(NameX, GccLikeHost), NameX>>},
   dx \in {<<NameX>>, <<NameG>>, <<NameG, QualifiedName(NameX, GccLikeHost)>>},
   dg \in {<<>>, <<NameX>>},
   dh \in {<<>>, <<NameG>>, <<RootName>>, <<QualifiedName(NameX, GccLike)>>}}

\* Build mac_release: default toolchain gcc_like_host.
ReleaseBuilds ==
  {GnBuildOf(
     (TARGET_ALL :> GnTarget(<<>>, "group", GccLikeHost)) @@
     (RootName :> GnTarget(dr, "static_library", GccLikeHost)) @@
     (NameX :> GnTarget(<<>>, "source_set", GccLikeHost)) @@
     (QualifiedName(NameX, GccLike) :> GnTarget(<<>>, "source_set", GccLike))) :
   dr \in {<<>>, <<NameX>>, <<QualifiedName(NameX, GccLike)>>}}

Projects ==
  {[buildNames |-> <<mac_debug>>, builds |-> (mac_debug :> d)] : d \in DebugBuilds}
  \cup
  {[buildNames |-> <<mac_debug, mac_release>>,
    builds |-> (mac_debug :> d) @@ (mac_release :> r)] :
   d \in DebugBuilds, r \in ReleaseBuilds}

\* The resolver before its call, on the project p.
ClosureIdle(p) ==
  /\ gnProject = p
  /\ gnRootTarget = RootName
  /\ cpc = "idle"
  /\ gnBuildConfigQueue = <<>>
  /\ seenGnBuildConfigs = <<>>
  /\ expanded = <<>>
  /\ enqueued = {}
  /\ fetched = {}
  /\ pushes = {}
  /\ closureResult = <<>>

NoProject == [buildNames |-> <<>>, builds |-> <<>>]

\* fromDirectory before its call, for the builds bs and the answers w.
FetchIdle(bs, w) ==
  /\ fBuilds = bs
  /\ world = w
  /\ fpc = "idle"
  /\ fetch = <<>>
  /\ fResult = NoProject

\* Before fromGnProject is called with the options o.
AssembleIdle(o) ==
  /\ options = o
  /\ apc = "idle"
  /\ subprojectIndex = 0
  /\ depNameIndex = 0
  /\ gnTargetBuildConfigs = <<>>
  /\ subprojectTargets = <<>>
  /\ data = <<>>
  /\ aErr = ""
  /\ translated = <<>>

NoOptions == [gnRootTargetName |-> RootName, subprojects |-> <<>>]

\* Before pool(fn, n) is called.
PoolIdle ==
  /\ poolMode = "none"
  /\ poolArg = 0
  /\ poolSize = 0
  /\ pendingPromises = <<>>
  /\ promises = <<>>
  /\ pcalls = <<>>

InitClosure ==
  /\ \E p \in Projects : ClosureIdle(p)
  /\ FetchIdle(<<>>, <<>>)
  /\ PoolIdle
  /\ MergerIdle
  /\ AssembleIdle(NoOptions)
  /\ CallsIdle

NextClosure ==
  \/ getAllGnTargetDeps_Start
  \/ getAllGnTargetDeps_Iterate
  \/ getAllGnTargetDeps_Throw
  \/ getAllGnTargetDeps_Return

SpecClosure == InitClosure /\ [][NextClosure]_vars

\* getAllGnTargetDeps is synchronous code: once called, its loop runs until
\* it returns or throws.
InitCyclicClosure ==
  /\ \E d \in CyclicDebugBuilds :
        ClosureIdle([buildNames |-> <<mac_debug>>, builds |-> (mac_debug :> d)])
  /\ FetchIdle(<<>>, <<>>)
  /\ PoolIdle
  /\ MergerIdle
  /\ AssembleIdle(NoOptions)
  /\ CallsIdle

FairSpecClosure == InitCyclicClosure /\ [][NextClosure]_vars /\ WF_vars(NextClosure)

-----------------------------------------------------------------------------
(* The answers of `gn desc` that fromDirectory is run on *)

\* the longest dependency list of //:all
MaxFetchDeps == 2

\* Build 1: //:all, //:r and //a:x, with shared dependencies, repeated
\* dependencies and cycles.
Worlds1 ==
  {(TARGET_ALL :> GnTarget(da, "group", GccLike)) @@
   (RootName :> GnTarget(dr, "static_library", GccLike)) @@
   (NameX :> GnTarget(dx, "source_set", GccLike)) :
   da \in SeqsUpTo({RootName, NameX}, MaxFetchDeps),
   dr \in {<<>>, <<NameX>>, <<NameX, NameX>>, <<TARGET_ALL>>, <<RootName>>},
   dx \in {<<>>, <<RootName>>}}

\* Build 2: //:all depending on //a:x.
World2 ==
  (TARGET_ALL :> GnTarget(<<NameX>>, "group", GccLikeHost)) @@
  (NameX :> GnTarget(<<>>, "source_set", GccLikeHost))

InitFetch ==
  /\ ClosureIdle(NoProject)
  /\ PoolIdle
  /\ MergerIdle
  /\ AssembleIdle(NoOptions)
  /\ \E w \in Worlds1 :
        \/ FetchIdle(<<mac_debug>>, <<w>>)
        \/ FetchIdle(<<mac_debug, mac_release>>, <<w, World2>>)
  /\ CallsIdle

NextFetch ==
  \/ fromDirectory_Start
  \/ \E b \in DOMAIN fetch : \E i \in DOMAIN fetch[b].inv : execa_Resolves(b, i)
  \/ \E b \in DOMAIN fetch : \E i \in DOMAIN fetch[b].inv : execa_Rejects(b, i)
  \/ \E b \in DOMAIN fetch : \E c \in DOMAIN fetch[b].calls : getSingleTarget_MapDeps(b, c)
  \/ \E b \in DOMAIN fetch : \E c \in DOMAIN fetch[b].calls : getSingleTarget_DescSettled(b, c)
  \/ \E b \in DOMAIN fetch : \E c \in DOMAIN fetch[b].calls : getSingleTarget_DepsSettled(b, c)
  \/ \E b \in DOMAIN fetch : build_RootSettled(b)
  \/ \E b \in DOMAIN fetch : build_AllSettled(b)
  \/ fromDirectory_Settled

SpecFetch == InitFetch /\ [][NextFetch]_vars

\* Every `gn desc` exits at some time, and the event loop runs every
\* continuation whose promise has settled.
FairSpecFetch == SpecFetch /\ WF_vars(NextFetch)

-----------------------------------------------------------------------------
(* pool under every interleaving of calls and settlements *)

InitPool ==
  /\ ClosureIdle(NoProject)
  /\ FetchIdle(<<>>, <<>>)
  /\ PoolIdle
  /\ MergerIdle
  /\ AssembleIdle(NoOptions)
  /\ MergerIdle
  /\ CallsIdle

NextPool ==
  \/ \E n \in 1..MaxPoolSize : pool_Create(n)
  \/ \E n \in {-1, 0} : pool_CreateThrows(n)
  \/ pool_CreateUnlimited
  \/ wrapper_Call
  \/ fn_CallUnlimited
  \/ \E p \in DOMAIN promises : fn_Resolves(p)
  \/ \E p \in DOMAIN promises : fn_Rejects(p)
  \/ \E c \in DOMAIN pcalls : wrapper_Wake(c)
  \/ \E c \in DOMAIN pcalls : wrapper_Finish(c)

SpecPool == InitPool /\ [][NextPool]_vars

\* Every invocation of fn settles at some time, and the event loop runs
\* every continuation whose promise has settled; nothing obliges a caller
\* to create a pool or to call the wrapper.
FairSpecPool ==
  /\ SpecPool
  /\ WF_vars(\E p \in DOMAIN promises : fn_Resolves(p) \/ fn_Rejects(p))
  /\ WF_vars(\E c \in DOMAIN pcalls : wrapper_Wake(c))
  /\ WF_vars(\E c \in DOMAIN pcalls : wrapper_Finish(c))

-----------------------------------------------------------------------------
(* GypTargetBuilder under every sequence of fragments *)

\* The two GYP toolsets of GypProjectBuilder.toolchainMap
ToolsetHost == <<"h", "o", "s", "t">>
ToolsetTarget == <<"t", "a", "r", "g", "e", "t">>
Toolsets == {ToolsetHost, ToolsetTarget}

\* The dependency `${name}#${toolset}` that toGypTargetFragment writes.
Dep(name, toolset) == name \o <<"#">> \o toolset

\* The dependency lists tried for a fragment of the toolset ts: none, empty,
\* one or two dependencies in either order, one of the other toolset, one
\* with no toolset suffix.
DepLists(ts) ==
  {UNDEF_ARRAY, <<>>, <<Dep(<<"d">>, ts)>>, <<Dep(<<"e">>, ts)>>,
   <<Dep(<<"d">>, ts), Dep(<<"e">>, ts)>>, <<Dep(<<"e">>, ts), Dep(<<"d">>, ts)>>}
  \cup {<<Dep(<<"d">>, other)>> : other \in Toolsets \ {ts}}
  \cup {<<<<"d">>>>}

Fragment(name, type, toolsets, deps, sources) ==
  [NoFragment EXCEPT !.target_name = name, !.type = type, !.toolsets = toolsets,
                     !.dependencies = deps, !.sources = sources]

\* The arguments <<fragment, outputs>> tried for addTargetFragment.
FragmentArgs ==
  \* a target of type none, with every dependency list
  {<<Fragment(<<"a">>, "none", <<ts>>, deps, <<"x.cc">>), <<>>>> :
     ts \in Toolsets, deps \in UNION {DepLists(t) : t \in Toolsets}}
  \* the same target with other sources
  \cup {<<Fragment(<<"a">>, "none", <<ts>>, <<Dep(<<"d">>, ts)>>, <<"y.cc">>), <<>>>> :
     ts \in Toolsets}
  \* an executable, with no, one (either of two) or two outputs
  \cup {<<Fragment(<<"a">>, "executable", <<ts>>, <<Dep(<<"d">>, ts)>>, <<"x.cc">>), outputs>> :
     ts \in Toolsets, outputs \in {UNDEF, <<>>, <<"o">>, <<"p">>, <<"o", "p">>}}
  \* a static library
  \cup {<<Fragment(<<"a">>, "static_library", <<ts>>, <<>>, <<"x.cc">>), <<>>>> :
     ts \in Toolsets}
  \* a target of another name
  \cup {<<Fragment(<<"b">>, "none", <<ts>>, <<>>, <<"x.cc">>), <<>>>> : ts \in Toolsets}
  \* fragments addTargetFragment rejects
  \cup {<<Fragment(<<"a">>, "none", toolsets, <<>>, <<"x.cc">>), <<>>>> :
     toolsets \in {UNDEF_ARRAY, <<>>, <<ToolsetHost, ToolsetTarget>>}}
  \cup {<<[Fragment(<<"a">>, "none", <<ToolsetHost>>, <<>>, <<"x.cc">>)
            EXCEPT !.target_conditions = <<>>], <<>>>>}

InitMerger ==
  /\ ClosureIdle(NoProject)
  /\ FetchIdle(<<>>, <<>>)
  /\ PoolIdle
  /\ MergerIdle
  /\ AssembleIdle(NoOptions)
  /\ CallsIdle

NextMerger ==
  \/ \E arg \in FragmentArgs : addTargetFragment(arg[1], arg[2])
  \/ buildWithProxy
  \/ buildTarget

SpecMerger == InitMerger /\ [][NextMerger]_vars

-----------------------------------------------------------------------------
(* fromGnProject over projects and options *)

LibName == <<"/", "/", "a", ":", "l", "i", "b">>
DName == <<"/", "/", "b", ":", "d">>
\* a target of the mac_release build alone
RelName == <<"/", "/", "a", ":", "r", "e", "l">>

\* source paths: compiled sources and headers
XCC == <<"/", "/", "x", ".", "c", "c">>
YCC == <<"/", "/", "y", ".", "c", "c">>
XH == <<"/", "/", "x", ".", "h">>
YH == <<"/", "/", "y", ".", "h">>

\* A GnTarget with sources and outputs.
GnTargetWith(deps, type, toolchain, sources, outputs) ==
  [GnTarget(deps, type, toolchain) EXCEPT !.sources = sources, !.outputs = outputs]

\* The dependency lists of //a:lib under gcc_like and under gcc_like_host:
\* none; qualified for the host variant; unqualified in both; different;
\* qualified in both; with an excluded dependency, in different places.
LibDeps ==
  {<<<<>>, <<>>>>,
   <<<<DName>>, <<QualifiedName(DName, GccLikeHost)>>>>,
   <<<<DName>>, <<DName>>>>,
   <<<<DName>>, <<>>>>,
   <<<<QualifiedName(DName, GccLike)>>, <<QualifiedName(DName, GccLikeHost)>>>>,
   <<<<NameG, DName>>, <<QualifiedName(DName, GccLikeHost), QualifiedName(NameG, GccLikeHost)>>>>}

\* The sources of //a:lib under the two toolchains.
LibSources ==
  {<<<<XCC>>, <<YCC>>>>, <<<<XCC>>, <<YH>>>>, <<<<XH>>, <<YH>>>>, <<UNDEF_ARRAY, UNDEF_ARRAY>>}

RootDeps ==
  {<<LibName, QualifiedName(LibName, GccLikeHost)>>, <<LibName>>,
   <<QualifiedName(LibName, GccLikeHost)>>, <<DName, LibName>>, <<>>, <<NameG, LibName>>}

\* Build mac_debug, default toolchain gcc_like: the root of type rt with the
\* dependencies rd, //a:lib of type lt under both toolchains, //b:d under
\* both, //gn:g under both.
AssembleDebug(rt, rd, lt, ld, ls) ==
  GnBuildFrom(<<
    <<TARGET_ALL, GnTarget(<<>>, "group", GccLike)>>,
    <<RootName, GnTargetWith(rd, rt, GccLike, <<XCC>>, UNDEF_ARRAY)>>,
    <<LibName, GnTargetWith(ld[1], lt, GccLike, ls[1],
         IF lt = "executable" THEN <<<<"/", "/", "o">>>> ELSE UNDEF_ARRAY)>>,
    <<QualifiedName(LibName, GccLikeHost), GnTargetWith(ld[2], lt, GccLikeHost, ls[2],
         IF lt = "executable" THEN <<<<"/", "/", "p">>>> ELSE UNDEF_ARRAY)>>,
    <<DName, GnTarget(<<>>, "group", GccLike)>>,
    <<QualifiedName(DName, GccLikeHost), GnTarget(<<>>, "group", GccLikeHost)>>,
    <<NameG, GnTarget(<<>>, "executable", GccLike)>>,
    <<QualifiedName(NameG, GccLikeHost), GnTarget(<<>>, "executable", GccLikeHost)>>>>)

\* Build mac_release, default toolchain gcc_like: the root with the
\* dependencies rd, and //a:rel.
AssembleRelease(rd) ==
  GnBuildFrom(<<
    <<TARGET_ALL, GnTarget(<<>>, "group", GccLike)>>,
    <<RootName, GnTargetWith(rd, "static_library", GccLike, <<XCC>>, UNDEF_ARRAY)>>,
    <<RelName, GnTargetWith(<<>>, "static_library", GccLike, <<XCC>>, UNDEF_ARRAY)>>>>)

\* the dependency lists and sources the other dimensions are varied around
DefaultRootDeps == <<LibName, QualifiedName(LibName, GccLikeHost)>>
DefaultLibDeps == <<<<QualifiedName(DName, GccLike)>>, <<QualifiedName(DName, GccLikeHost)>>>>
DefaultLibSources == <<<<XCC>>, <<YCC>>>>

\* One dimension varied at a time: the type and sources of //a:lib, its
\* dependencies, the root's dependencies, the root's type.
AssembleDebugBuilds ==
  {AssembleDebug("static_library", DefaultRootDeps, lt, DefaultLibDeps, ls) :
     lt \in {"static_library", "source_set", "executable"}, ls \in LibSources}
  \cup {AssembleDebug("static_library", DefaultRootDeps, "static_library", ld, ls) :
     ld \in LibDeps, ls \in {<<<<XCC>>, <<YCC>>>>, <<<<XCC>>, <<YH>>>>}}
  \cup {AssembleDebug("static_library", rd, "static_library", DefaultLibDeps, DefaultLibSources) :
     rd \in RootDeps}
  \cup {AssembleDebug(rt, <<LibName>>, "group", <<<<>>, <<>>>>, DefaultLibSources) :
     rt \in {"executable", "source_set", "shared_library"}}
  \* the root depends on one variant of //a:lib alone, which names its
  \* dependency with or without a toolchain
  \cup {AssembleDebug("static_library", rd, "static_library", ld, DefaultLibSources) :
     rd \in {<<LibName>>, <<QualifiedName(LibName, GccLikeHost)>>},
     ld \in {<<<<DName>>, <<DName>>>>, DefaultLibDeps}}

\* a root depending on a target its build does not have
AssembleMissingDep ==
  AssembleDebug("static_library", <<RelName>>, "static_library", DefaultLibDeps, DefaultLibSources)

\* toolchains the table has no own key for: a label, the empty string, a
\* name every object inherits
OtherToolchain == <<"/", "/", "t", ":", "o">>
ConstructorToolchain == <<"c", "o", "n", "s", "t", "r", "u", "c", "t", "o", "r">>
OddToolchains == {OtherToolchain, <<>>, ConstructorToolchain}

\* Build mac_debug with the default toolchain tc: the root alone.
AssembleDefaultToolchain(tc) ==
  GnBuildFrom(<<
    <<TARGET_ALL, GnTarget(<<>>, "group", tc)>>,
    <<RootName, GnTargetWith(<<>>, "static_library", tc, <<XCC>>, UNDEF_ARRAY)>>>>)

\* Build mac_debug, default toolchain gcc_like: the root depends on //b:d
\* under the toolchain //t:o, after or before //a:lib.
AssembleDepToolchain(first) ==
  GnBuildFrom(<<
    <<TARGET_ALL, GnTarget(<<>>, "group", GccLike)>>,
    <<RootName, GnTargetWith(IF first THEN <<QualifiedName(DName, OtherToolchain), LibName>>
                             ELSE <<LibName, QualifiedName(DName, OtherToolchain)>>,
                             "static_library", GccLike, <<XCC>>, UNDEF_ARRAY)>>,
    <<LibName, GnTargetWith(<<>>, "static_library", GccLike, <<XCC>>, UNDEF_ARRAY)>>,
    <<QualifiedName(DName, OtherToolchain), GnTarget(<<>>, "group", OtherToolchain)>>>>)

AssembleOddToolchains ==
  {AssembleDefaultToolchain(tc) : tc \in OddToolchains}
  \cup {AssembleDepToolchain(first) : first \in BOOLEAN}

AssembleProjects ==
  {[buildNames |-> <<mac_debug>>, builds |-> (mac_debug :> d)] :
     d \in AssembleDebugBuilds \cup {AssembleMissingDep} \cup AssembleOddToolchains}
  \cup
  {[buildNames |-> <<mac_debug, mac_release>>,
    builds |-> (mac_debug :> AssembleDebug("static_library", <<LibName>>, "static_library",
                                           <<<<>>, <<>>>>, ls)) @@
               (mac_release :> AssembleRelease(rd))] :
   ls \in LibSources, rd \in {<<>>, <<RelName>>}}
  \cup
  {[buildNames |-> <<mac_release>>, builds |-> (mac_release :> AssembleRelease(<<RelName>>))]}

AllNames == {TARGET_ALL, RootName, LibName, DName, NameG, RelName}

Subproject(name, file, accepts) == [name |-> name, file |-> file, accepts |-> accepts]

MainGyp == Subproject(<<"m">>, <<"m", ".", "g", "y", "p">>, AllNames)

\* The subprojects tried: one for everything; a partition; the root matched
\* by none, or by two; a dependency matched by none, or by two.
SubprojectLists ==
  {<<MainGyp>>,
   <<[MainGyp EXCEPT !.accepts = AllNames \ {DName}],
     Subproject(<<"o">>, <<"o", ".", "g", "y", "p">>, {DName})>>,
   <<[MainGyp EXCEPT !.accepts = {RootName}],
     Subproject(<<"o">>, <<"o", ".", "g", "y", "p">>, AllNames \ {RootName})>>,
   <<[MainGyp EXCEPT !.accepts = AllNames \ {RootName}]>>,
   <<MainGyp, Subproject(<<"o">>, <<"o", ".", "g", "y", "p">>, {RootName})>>,
   <<[MainGyp EXCEPT !.accepts = AllNames \ {DName}]>>,
   <<MainGyp, Subproject(<<"o">>, <<"o", ".", "g", "y", "p">>, {LibName})>>}

\* the projects every list of subprojects is tried with
PartitionedProjects ==
  {[buildNames |-> <<mac_debug>>,
    builds |-> (mac_debug :> AssembleDebug("static_library", rd, "static_library", ld,
                                           DefaultLibSources))] :
   rd \in {DefaultRootDeps, <<DName, LibName>>},
   ld \in {DefaultLibDeps, <<<<DName>>, <<DName>>>>}}

AssembleInputs ==
  {<<p, <<MainGyp>>>> : p \in AssembleProjects}
  \cup (PartitionedProjects \X SubprojectLists)

InitAssemble ==
  /\ \E input \in AssembleInputs :
        /\ ClosureIdle(input[1])
        /\ AssembleIdle([gnRootTargetName |-> RootName, subprojects |-> input[2]])
  /\ FetchIdle(<<>>, <<>>)
  /\ PoolIdle
  /\ MergerIdle
  /\ CallsIdle

NextAssemble ==
  \/ getAllGnTargetDeps_Start
  \/ getAllGnTargetDeps_Iterate
  \/ getAllGnTargetDeps_Throw
  \/ getAllGnTargetDeps_Return
  \/ fromGnProject_ClosureThrew
  \/ fromGnProject_Closure
  \/ fromGnProject_Subproject
  \/ fromGnProject_PushSubproject
  \/ toGypTargets_Start
  \/ toGypTargets_AddFragment
  \/ toGypTargets_Build
  \/ generateEmptyCCTarget_Start
  \/ generateEmptyCCTarget_AddFragment
  \/ generateEmptyCCTarget_Build

SpecAssemble == InitAssemble /\ [][NextAssemble]_vars

-----------------------------------------------------------------------------
(* Claims about the closure resolver *)

KnownToolchains == {GccLike, GccLikeHost}

\* The dependency string d carries the toolchain qualifier t.
HasQualifier(d, t) == EndsWith(d, <<"(">> \o t \o <<")">>)

IsQualified(d) == \E t \in KnownToolchains : HasQualifier(d, t)

\* The key a dependency string d of the key cur stands for: its own declared
\* toolchain and its name without the suffix when d is qualified, the
\* toolchain of cur otherwise.
ExpectedKey(d, cur) ==
  IF IsQualified(d)
  THEN LET t == CHOOSE t \in KnownToolchains : HasQualifier(d, t)
       IN Key(SubSeq(d, 1, Len(d) - Len(t) - 2), cur.build, t)
  ELSE Key(d, cur.build, cur.toolchain)

\* The dependency edges out of a key.
Successors(k) ==
  LET build == getBuild(gnProject, k.build)
  IN IF hasTarget(build, k.toolchain, k.name)
     THEN {ExpectedKey(d, k) : d \in Range(getTarget(build, k.toolchain, k.name).deps)}
     ELSE {}

RECURSIVE ReachableFrom(_)
ReachableFrom(S) ==
  LET N == S \cup UNION {Successors(k) : k \in S}
  IN IF N = S THEN S ELSE ReachableFrom(N)

NoDuplicates(s) == \A i, j \in 1..Len(s) : i # j => s[i] # s[j]

\* C1: no (name, build, toolchain) key is dequeued and expanded more than
\* once during one traversal.
C1_NoKeyExpandedTwice == NoDuplicates(expanded)

\* C2: the array returned has no duplicates and holds exactly the keys
\* reachable from the seeds (root, b, defaultToolchain(b)), b over every
\* build of the project, along dependency edges.
C2_ResultIsReachableSet ==
  cpc = "done" =>
    /\ NoDuplicates(closureResult)
    /\ Range(closureResult) = ReachableFrom(Range(Seeds(gnProject, gnRootTarget)))

\* A traversal that returned keys of two builds, five or more in all, after
\* dequeuing some key more than once.
C2_Witness ==
  /\ cpc = "done"
  /\ Len(closureResult) >= 5
  /\ Len(expanded) > Len(closureResult)
  /\ {k.build : k \in Range(closureResult)} = {mac_debug, mac_release}

\* C3: every dependency pushed on the queue is pushed as the key
\* ExpectedKey gives it (the current key's toolchain when the dependency is
\* unqualified, its own toolchain and its bare name when it is qualified),
\* and every dependency of an expanded key has that key on the queue or in
\* the visited set.
C3_ToolchainInheritance ==
  /\ \A p \in pushes : p.key = ExpectedKey(p.dep, p.from)
  /\ \A i \in 1..Len(expanded) :
        \A k \in Successors(expanded[i]) :
          k \in Range(seenGnBuildConfigs) \cup Range(gnBuildConfigQueue)

\* An unqualified dependency pushed, and later expanded, under a toolchain
\* that is not its build's default, and a qualified dependency pushed.
C3_Witness ==
  /\ \E p \in pushes :
        /\ ~IsQualified(p.dep)
        /\ p.from.toolchain # getDefaultToolchain(getBuild(gnProject, p.from.build))
        /\ p.key.toolchain = p.from.toolchain
        /\ p.key \in Range(expanded)
  /\ \E q \in pushes : IsQualified(q.dep) /\ q.key.toolchain # q.from.toolchain

\* C4: no key whose name the bootstrap-exclusion predicate matches is
\* enqueued, fetched from the build model, or returned.
C4_IgnoredNeverTouched ==
  /\ \A k \in enqueued : ~ignoreTargets(k.name)
  /\ \A f \in fetched : ~ignoreTargets(f[2])
  /\ \A k \in Range(closureResult) : ~ignoreTargets(k.name)

-----------------------------------------------------------------------------
(* Claims about GnProject.fromDirectory *)

\* The names `gn desc` leads to from the names S, in the answers w.
RECURSIVE NamesFrom(_, _)
NamesFrom(w, S) ==
  LET N == S \cup UNION {Range(w[n].deps) : n \in S}
  IN IF N = S THEN S ELSE NamesFrom(w, N)

InvocationsOf(b, n) == {i \in 1..Len(fetch[b].inv) : fetch[b].inv[i].target = n}

\* The names build b has discovered: //:all and every dependency listed by
\* a description that a call has read.
Discovered(b) ==
  {TARGET_ALL} \cup
  UNION {Range(world[b][fetch[b].calls[c].target].deps) :
           c \in {d \in 1..Len(fetch[b].calls) :
                    /\ fetch[b].calls[d].first
                    /\ fetch[b].calls[d].state # "awaitDesc"
                    /\ fetch[b].inv[fetch[b].calls[d].desc].state = "resolved"}}

\* C5: in every build `gn desc` is invoked exactly once for each discovered
\* name, and for no other name.
C5_OneQueryPerName ==
  \A b \in DOMAIN fetch :
    /\ \A n \in Discovered(b) : Cardinality(InvocationsOf(b, n)) = 1
    /\ \A i \in 1..Len(fetch[b].inv) : fetch[b].inv[i].target \in Discovered(b)

\* Two calls for one name at once: the second holds the cached promise of a
\* query that is still pending.
C5_Witness ==
  \E b \in DOMAIN fetch : \E c \in 1..Len(fetch[b].calls) :
    /\ ~fetch[b].calls[c].first
    /\ fetch[b].inv[fetch[b].calls[c].desc].state = "pending"

\* C6: when fromDirectory's promise is resolved, every name reachable from
\* //:all in every requested build has been queried and its query has
\* resolved, no query is pending, and the name is a target of that build
\* in the project.
C6_ResolvedOnlyWhenAllResolved ==
  fpc = "resolved" =>
    /\ fResult.buildNames = fBuilds
    /\ \A b \in 1..Len(fBuilds) :
         /\ \A i \in 1..Len(fetch[b].inv) : fetch[b].inv[i].state # "pending"
         /\ \A n \in NamesFrom(world[b], {TARGET_ALL}) :
              /\ \E i \in InvocationsOf(b, n) : fetch[b].inv[i].state = "resolved"
              /\ n \in DOMAIN fResult.builds[fBuilds[b]].targets

\* A resolved construction of two builds, the first with three targets
\* and a dependency reached twice.
C6_Witness ==
  /\ fpc = "resolved"
  /\ Len(fBuilds) = 2
  /\ Cardinality(NamesFrom(world[1], {TARGET_ALL})) = 3
  /\ \E c \in 1..Len(fetch[1].calls) : ~fetch[1].calls[c].first

QueryFailed == \E b \in DOMAIN fetch : \E i \in 1..Len(fetch[b].inv) : fetch[b].inv[i].state = "rejected"

\* C7: once a query has failed in any build, fromDirectory's promise is
\* never resolved and no GnProject is made, and when nothing is left to
\* run the promise is rejected.
C7_FailureAbortsConstruction ==
  QueryFailed =>
    /\ fpc # "resolved"
    /\ fResult = NoProject
    /\ (~ENABLED NextFetch) => fpc = "rejected"

\* A rejected construction in which one build was described in full and
\* a query of the other build failed.
C7_Witness ==
  /\ fpc = "rejected"
  /\ Len(fBuilds) = 2
  /\ fetch[1].state = "resolved"
  /\ \E i \in 1..Len(fetch[2].inv) : fetch[2].inv[i].state = "rejected"

-----------------------------------------------------------------------------
(* Claims about pool *)

\* The invocations of fn that have started and not settled.
InFlight == {p \in DOMAIN promises : promises[p] = "pending"}

-----------------------------------------------------------------------------
(* Claims about GypTargetBuilder *)

\* The last call was addTargetFragment with a fragment of one toolset, and a
\* fragment of that toolset had been added before.
AddedToolsetAgain ==
  /\ mLast.op = "addTargetFragment"
  /\ mLast.fragment.toolsets # UNDEF_ARRAY
  /\ Len(mLast.fragment.toolsets) = 1
  /\ MapHas(mLast.before, mLast.fragment.toolsets[1])

\* C9: adding a fragment whose toolset equals the toolset of a fragment
\* already added fails with an error, and the earlier fragment is not
\* replaced by the later one.
C9_DuplicateToolsetFails ==
  AddedToolsetAgain => (mpc = "threw" /\ targetFragments = mLast.before)

\* A dependency with its `#<toolset>` suffix stripped: all before the last `#`.
StripToolset(dep) ==
  IF IndexOf(dep, "#") = 0 THEN dep
  ELSE SubSeq(dep, 1, SetMax({i \in 1..Len(dep) : dep[i] = "#"}) - 1)

\* A fragment's dependency list with every suffix stripped; a fragment
\* with no list has no dependencies.
StrippedDeps(fragment) ==
  IF fragment.dependencies = UNDEF_ARRAY THEN <<>>
  ELSE [i \in 1..Len(fragment.dependencies) |-> StripToolset(fragment.dependencies[i])]

\* The stripped dependency lists are the same list for every toolset.
StrippedDepsIdentical(fragments) ==
  \A i, j \in 1..Len(fragments) :
     StrippedDeps(fragments[i][2]) = StrippedDeps(fragments[j][2])

\* The last call was a finalizing method.
Finalizing == mLast.op \in {"buildTarget", "buildWithProxy"}

\* C10: finalizing a builder that holds fragments for two or more toolsets
\* whose stripped dependency lists are not identical throws, and returns no
\* merged target.
C10_MismatchThrows ==
  (Finalizing /\ Len(targetFragments) >= 2 /\ ~StrippedDepsIdentical(targetFragments))
    => (mpc = "threw" /\ mResult = <<>>)

\* buildWithProxy threw on two toolsets whose dependencies all carry their
\* own toolset's suffix, and differ once stripped.
C10_Witness ==
  /\ mLast.op = "buildWithProxy"
  /\ Len(targetFragments) >= 2
  /\ ~StrippedDepsIdentical(targetFragments)
  /\ mpc = "threw"
  /\ mErr = "has different dependencies for different toolchains"

\* The fragments held when the last call was made, in the Map's order.
HeldFragments == MapValues(targetFragments)

\* C11: finalizing a builder that holds exactly one fragment returns that
\* fragment's fields verbatim without the recorded outputs, with toolsets the
\* one-element list of the fragment's toolset and with no target_conditions.
\* (buildWithProxy renames the merged target of a proxied kind.)
C11_SingleFragmentVerbatim ==
  (Finalizing /\ mpc = "built" /\ Len(targetFragments) = 1) =>
     LET f == HeldFragments[1]
         proxied == mLast.op = "buildWithProxy" /\ f.type \in {"executable", "static_library"}
         merged == mResult[1]
     IN /\ merged.target_name = IF proxied THEN ProxyName(f.target_name) ELSE f.target_name
        /\ merged.type = f.type
        /\ merged.dependencies = f.dependencies
        /\ merged.sources = f.sources
        /\ merged.actions = f.actions
        /\ merged.outputs = UNDEF
        /\ merged.toolsets = <<targetFragments[1][1]>>
        /\ merged.toolsets = f.toolsets
        /\ merged.target_conditions = UNDEF

\* buildTarget returned the only fragment, which had dependencies, sources
\* and a recorded output.
C11_Witness ==
  /\ Finalizing /\ mpc = "built" /\ Len(targetFragments) = 1
  /\ HeldFragments[1].outputs = <<"o">>
  /\ HeldFragments[1].dependencies = <<Dep(<<"d">>, ToolsetTarget)>>
  /\ mResult[1].sources = <<"x.cc">>

\* Every toolset of the builder declares exactly one output.
EveryToolsetOneOutput ==
  \A i \in 1..Len(HeldFragments) :
     HeldFragments[i].outputs # UNDEF /\ Len(HeldFragments[i].outputs) = 1

\* The copy action the facade target carries for the fragment f.
CopyActionFor(f) ==
  [action_name |-> "copy_as_expected_output",
   action |-> <<"cp", "<@(_inputs)", "<@(_outputs)">>,
   inputs |-> <<<<"<", "@", "(", "P", "R", "O", "D", "U", "C", "T", "_", "D", "I", "R", ")", "/">>
                  \o this_targetName \o <<"_", "p", "r", "o", "x", "y">>>>,
   outputs |-> <<f.outputs[1]>>]

\* buildWithProxy was the last call, on a builder of kind executable.
FinalizedExecutable ==
  mLast.op = "buildWithProxy" /\ this_targetType = "executable" /\ ~Falsy(this_targetName)

\* C13: for an executable whose every toolset declares exactly one output,
\* buildWithProxy returns exactly two targets, the merged target renamed
\* <name>_proxy and a target <name> of kind none that depends on <name>_proxy,
\* covers the same toolsets and carries one copy action per toolset from the
\* proxy's product to that toolset's output (directly for one toolset, in a
\* toolset-conditioned branch per toolset for several).  The cross-toolset
\* dependency check comes first and is the only way it throws.
C13_ExecutableProxyPair ==
  (FinalizedExecutable /\ EveryToolsetOneOutput) =>
     \/ /\ mpc = "threw"
        /\ Len(targetFragments) >= 2
        /\ mErr \in {"has a non-build dependency",
                     "has different dependencies for different toolchains"}
     \/ /\ mpc = "built"
        /\ Len(mResult) = 2
        /\ mResult[1].target_name = this_targetName \o <<"_", "p", "r", "o", "x", "y">>
        /\ mResult[1].type = "executable"
        /\ mResult[2].target_name = this_targetName
        /\ mResult[2].type = "none"
        /\ mResult[2].dependencies = <<mResult[1].target_name>>
        /\ mResult[2].toolsets = MapKeys(targetFragments)
        /\ IF Len(targetFragments) = 1
           THEN /\ mResult[2].actions = <<CopyActionFor(HeldFragments[1])>>
                /\ mResult[2].target_conditions = UNDEF
           ELSE /\ mResult[2].actions = UNDEF
                /\ Len(mResult[2].target_conditions) = Len(targetFragments)
                /\ \A i \in 1..Len(targetFragments) :
                      /\ mResult[2].target_conditions[i][1] = ToolsetCondition(targetFragments[i][1])
                      /\ mResult[2].target_conditions[i][2].actions = <<CopyActionFor(HeldFragments[i])>>

\* An executable of two toolsets with different outputs was built.
C13_Witness ==
  /\ FinalizedExecutable /\ EveryToolsetOneOutput
  /\ mpc = "built"
  /\ Len(targetFragments) = 2
  /\ HeldFragments[1].outputs # HeldFragments[2].outputs

\* C14: buildWithProxy on an executable throws and returns no targets if
\* some toolset's declared outputs are missing or are not exactly one path.
C14_ExecutableOutputCountThrows ==
  (FinalizedExecutable /\ ~EveryToolsetOneOutput) => (mpc = "threw" /\ mResult = <<>>)

\* The throw of buildProxyForExecutableTarget was reached because the second
\* toolset, not the first, had two outputs.
C14_Witness ==
  /\ FinalizedExecutable
  /\ mErr = "as an executable should have just one output"
  /\ Len(targetFragments) = 2
  /\ Len(HeldFragments[1].outputs) = 1
  /\ HeldFragments[2].outputs # UNDEF /\ Len(HeldFragments[2].outputs) = 2

-----------------------------------------------------------------------------
(* Claims about fromGnProject *)

\* fromGnProject returned or threw.
FromGnProjectOver == apc \in {"done", "error"}

\* The dependency strings with any toolchain qualifier removed.
DepNames(deps) ==
  [i \in 1..Len(deps) |->
     UnqualifiedName(parseGnTargetName(deps[i]).path, parseGnTargetName(deps[i]).target)]

\* The places <<i, j>> of the targets emitted: target j of data[i].
Emitted == UNION {{<<i, j>> : j \in 1..Len(data[i].targets)} : i \in 1..Len(data)}

\* The places of the targets emitted into the file of the subproject name.
EmittedInto(name) == {e \in Emitted : data[e[1]].name = name}

TargetAt(e) == data[e[1]].targets[e[2]]

\* The project is the build mac_debug alone, written to one file, and
\* //a:lib is a static library under both toolchains, both in the closure,
\* whose variants have the same dependencies and different sources.
TwoToolchainStaticLibrary ==
  /\ getBuildNames(gnProject) = <<mac_debug>>
  /\ options.subprojects = <<MainGyp>>
  /\ LET build == getBuild(gnProject, mac_debug)
     IN /\ hasTarget(build, GccLike, LibName)
        /\ hasTarget(build, GccLikeHost, LibName)
        /\ LET t == getTarget(build, GccLike, LibName)
               h == getTarget(build, GccLikeHost, LibName)
           IN /\ t.type \in {"static_library", "source_set"}
              /\ h.type = t.type
              /\ DepNames(t.deps) = DepNames(h.deps)
              /\ t.sources # h.sources
  /\ cpc = "done"
  /\ {k.toolchain : k \in {c \in Range(closureResult) : c.name = LibName}}
        = {GccLike, GccLikeHost}

\* The merged target of //a:lib as the claim describes it: one
\* target_conditions entry per toolchain with that variant's sources first
\* and no dependencies, and one top-level list of stripped dependencies.
MergedLibrary(target) ==
  LET build == getBuild(gnProject, mac_debug)
      own(toolchain) ==
        boundGypifyPaths(mac_debug, OrEmpty(getTarget(build, toolchain, LibName).sources)).value
      entryOf(toolchain) ==
        {i \in 1..Len(target.target_conditions) :
           target.target_conditions[i][1] = ToolsetCondition(toGypToolset(toolchain).value)}
  IN /\ Len(target.target_conditions) = 2
     /\ \A toolchain \in {GccLike, GccLikeHost} :
          /\ Cardinality(entryOf(toolchain)) = 1
          /\ \A i \in entryOf(toolchain) :
                /\ target.target_conditions[i][2].dependencies = UNDEF_ARRAY
                /\ StartsWith(target.target_conditions[i][2].sources, own(toolchain))
     /\ target.dependencies # UNDEF_ARRAY
     /\ \A i \in 1..Len(target.dependencies) : IndexOf(target.dependencies[i], "#") = 0

\* C12: end to end, a static library present under two toolchains with
\* identical dependencies and different sources is translated and merged
\* without an error, into a target with one target_conditions entry per
\* toolchain, each with its own sources and no dependencies, and one
\* shared top-level list of toolset-stripped dependencies.
C12_TwoToolchainLibraryMerges ==
  (TwoToolchainStaticLibrary /\ FromGnProjectOver) =>
     /\ apc = "done"
     /\ \E e \in EmittedInto(MainGyp.name) :
           /\ TargetAt(e).target_name = ProxyName(gypifyTargetName(LibName))
           /\ MergedLibrary(TargetAt(e))

\* toGypTargets has just returned the targets of the logical name: its
\* merger is the one buildWithProxy was last called on, and it returned.
EmittedLogical(name) ==
  /\ cpc = "done"
  /\ mLast.op = "buildWithProxy"
  /\ mpc = "built"
  /\ this_targetName = gypifyTargetName(name)
  /\ name \in Range(gnTargetDepNames)

\* The GN types of the logical name under the keys of the processed build.
GnTypesOf(name) ==
  {getTarget(getBuild(gnProject, k.build), k.toolchain, k.name).type :
     k \in {c \in Range(closureResult) : c.name = name /\ c.build = mac_debug}}

\* The targets returned are the pair: the merged target as <name>_proxy,
\* and a wrapper <name> of kind none depending on it, of the same toolsets.
ProxyPair(targets) ==
  /\ Len(targets) = 2
  /\ targets[1].target_name = ProxyName(this_targetName)
  /\ targets[1].type = "static_library"
  /\ targets[2].target_name = this_targetName
  /\ targets[2].type = "none"
  /\ targets[2].dependencies = <<ProxyName(this_targetName)>>
  /\ targets[2].toolsets = targets[1].toolsets

FinalizedEmpty ==
  /\ mLast.op = "buildWithProxy"
  /\ mAdds = 0
  /\ targetFragments = <<>>

\* C16: buildWithProxy on a merger to which no fragment has been added
\* throws and returns no target, and fromGnProject fails with it; such is
\* the merger toGypTargets builds for a logical name with no closure key
\* in the processed build.
C16_EmptyBuilderThrows ==
  FinalizedEmpty =>
     /\ mpc = "threw"
     /\ mErr = "No targets were specified"
     /\ mResult = <<>>
     /\ apc = "error"
     /\ aErr = "No targets were specified"

\* toGypTargets finalized the merger of //a:rel, a name of the closure
\* with keys in the build mac_release alone.
C16_Witness ==
  /\ FinalizedEmpty
  /\ cpc = "done"
  /\ filteredGnTargetDepNames(options.subprojects[subprojectIndex])[depNameIndex] = RelName
  /\ \E c \in Range(closureResult) : c.name = RelName
  /\ \A c \in Range(closureResult) : c.name = RelName => c.build = mac_release
  /\ \E c \in Range(closureResult) : c.build = mac_debug

\* The GnTarget the i-th translated fragment was made from.
SourceTarget(i) ==
  getTarget(getBuild(gnProject, translated[i].key.build),
            translated[i].key.toolchain, translated[i].key.name)

\* The sources and dependencies of the i-th translated fragment before the
\* Sources block looks for a compiled source.
TranslatedSources(i) ==
  boundGypifyPaths(translated[i].key.build, OrEmpty(SourceTarget(i).sources)).value

TranslatedDependencies(i) ==
  FragmentDependencies(SourceTarget(i), translated[i].subproject, translated[i].key).value

\* Some path of the list ends in .cc.
SomeEndsInCC(paths) ==
  \E k \in 1..Len(paths) :
     Len(paths[k]) >= 3 /\ SubSeq(paths[k], Len(paths[k]) - 2, Len(paths[k])) = <<".", "c", "c">>

\* The i-th fragment gained one placeholder source and one dependency on
\* the generator of the placeholder, of the fragment's own toolset.
GainedPlaceholder(i) ==
  LET f == translated[i].fragment
  IN /\ Len(f.sources) = Len(TranslatedSources(i)) + 1
     /\ SubSeq(f.sources, 1, Len(f.sources) - 1) = TranslatedSources(i)
     /\ EndsWith(f.sources[Len(f.sources)],
                 <<"/", "g", "e", "n", "/", "e", "m", "p", "t", "y", ".", "c", "c">>)
     /\ Len(f.dependencies) = Len(TranslatedDependencies(i)) + 1
     /\ SubSeq(f.dependencies, 1, Len(f.dependencies) - 1) = TranslatedDependencies(i)
     /\ f.dependencies[Len(f.dependencies)] =
          <<".", "/", "e", "m", "p", "t", "y", ".", "g", "y", "p", ":">> \o gen_empty_cc
            \o <<"#">> \o f.toolsets[1]

MatchingSubprojects(name) ==
  {i \in 1..Len(options.subprojects) : predicate(options.subprojects[i], name)}

\* Some non-excluded logical target of the closure belongs to no
\* subproject, or to more than one.
Misclassified ==
  \E name \in Range(gnTargetDepNames) :
     ~ignoreTargets(name) /\ Cardinality(MatchingSubprojects(name)) # 1

\* C18: fromGnProject fails with an error whenever a non-excluded logical
\* target of the closure, the root included, satisfies the predicate of no
\* subproject or of more than one; it never returns with such a target
\* omitted from every file or emitted into two.
C18_MisclassifiedIsFatal ==
  (cpc = "done" /\ FromGnProjectOver /\ Misclassified) => apc = "error"

\* The dependencies of the GnTarget of the i-th translated fragment that
\* are not excluded, in source order.
NonExcludedDeps(i) == SelectSeq(SourceTarget(i).deps, LAMBDA d : ~ignoreTargets(d))

\* The key the closure resolver makes of the dependency d of the i-th
\* translated fragment's key.
ClosureKeyOf(i, d) == DepKey(parseGnTargetName(d), translated[i].key)

\* All after the last `#` of a dependency.
ToolsetSuffix(dep) ==
  SubSeq(dep, SetMax({k \in 1..Len(dep) : dep[k] = "#"}) + 1, Len(dep))

\* The name the claim gives the dependency d in the i-th fragment: the
\* flattened name without toolchain, `#`, the toolset of d's toolchain, after
\* the file of d's subproject when that is not the fragment's subproject.
RenamedDependency(i, d) ==
  LET k == ClosureKeyOf(i, d)
      grouping == options.subprojects[CHOOSE s \in MatchingSubprojects(k.name) : TRUE]
  IN (IF grouping.name # translated[i].subproject THEN grouping.file \o <<":">> ELSE <<>>)
       \o gypifyTargetName(k.name) \o <<"#">> \o toGypToolset(k.toolchain).value

\* C19: in a translated fragment every non-excluded dependency of the
\* source target appears, in source order, as its flattened name without
\* toolchain, `#` and the toolset of the dependency's toolchain, with the
\* file of its subproject in front exactly when that subproject is not the
\* one the fragment is generated for.
C19_DependenciesRenamed ==
  \A i \in 1..Len(translated) :
     /\ Len(translated[i].fragment.dependencies) >= Len(NonExcludedDeps(i))
     /\ \A k \in 1..Len(NonExcludedDeps(i)) :
           translated[i].fragment.dependencies[k] = RenamedDependency(i, NonExcludedDeps(i)[k])

\* C20: for a dependency without a toolchain qualifier of a target
\* translated under the key toolchain T, the toolchain the closure resolver
\* assigns to the dependency is T, and the `#<toolset>` suffix
\* toGypTargetFragment gives it is the toolset of T, also when T is not the
\* default toolchain of the build.
C20_UnqualifiedRuleUniform ==
  \A i \in 1..Len(translated) :
     \A k \in 1..Len(NonExcludedDeps(i)) :
        Falsy(parseGnTargetName(NonExcludedDeps(i)[k]).toolchain) =>
           /\ ClosureKeyOf(i, NonExcludedDeps(i)[k]).toolchain = translated[i].key.toolchain
           /\ ToolsetSuffix(translated[i].fragment.dependencies[k])
                = toGypToolset(translated[i].key.toolchain).value

\* The toolchain toGypTargetFragment resolves for the dependency d of the
\* i-th translated fragment.
TranslatorToolchainOf(i, d) == boundParseGnTargetName(d, translated[i].key).toolchain

\* C21: a translation that did not fail had a key toolchain, and a resolved
\* toolchain for every non-excluded dependency, that is a key of the
\* toolchain-to-toolset table, and every toolset it produced is host or
\* target; none is produced for an empty or unmapped toolchain.
C21_UnmappedToolchainIsFatal ==
  \A i \in 1..Len(translated) :
     /\ translated[i].key.toolchain \in KnownToolchains
     /\ translated[i].fragment.toolsets[1] \in Toolsets
     /\ \A k \in 1..Len(NonExcludedDeps(i)) :
           /\ TranslatorToolchainOf(i, NonExcludedDeps(i)[k]) \in KnownToolchains
           /\ ToolsetSuffix(translated[i].fragment.dependencies[k]) \in Toolsets

-----------------------------------------------------------------------------
(* util.ts serializeMap and deserializeMap; gn.ts serialize and deserialize.
   A Map is the sequence of its entries <<key, value>> in insertion order.
   A JSON object, and the text JSON.stringify writes for it, is the sequence
   of its own properties <<name, value>> in property order. *)

DecimalDigits == <<"0", "1", "2", "3", "4", "5", "6", "7", "8", "9">>

\* A property name that is a canonical array index: such properties come
\* first in an object's property order, in ascending numeric order.
IsArrayIndex(k) ==
  /\ Len(k) > 0
  /\ \A i \in 1..Len(k) : k[i] \in Range(DecimalDigits)
  /\ (Len(k) = 1 \/ k[1] # "0")

RECURSIVE ToNumber(_)
ToNumber(k) ==
  IF k = <<>> THEN 0
  ELSE 10 * ToNumber(SubSeq(k, 1, Len(k) - 1))
         + (CHOOSE d \in 0..9 : DecimalDigits[d + 1] = k[Len(k)])

\* The property name whose assignment on an object literal sets the object's
\* prototype instead of creating a property.
PROTO == <<"_", "_", "p", "r", "o", "t", "o", "_", "_">>

\* The own property names of an object, in property order, after the names
\* `assigned` were assigned to {} in that order.
PropertyOrder(assigned) ==
  SortSeq(SelectSeq(assigned, IsArrayIndex), LAMBDA a, b : ToNumber(a) < ToNumber(b))
    \o SelectSeq(assigned, LAMBDA k : ~IsArrayIndex(k) /\ k # PROTO)

\* The own property names of the object JSON.parse makes of a text whose
\* properties are written in the order `written`: __proto__ is an own
\* property of it.
ParsedOrder(written) ==
  SortSeq(SelectSeq(written, IsArrayIndex), LAMBDA a, b : ToNumber(a) < ToNumber(b))
    \o SelectSeq(written, LAMBDA k : ~IsArrayIndex(k))

\* serializeMap(map, k => k, serializeValue): result[key] =
\* JSON.parse(serializeValue(map.get(key))) for every key, then
\* JSON.stringify(result).  The entries written, in order, each with the
\* value its caller's serializeValue is applied to.
serializeMap(map) ==
  LET names == PropertyOrder(MapKeys(map))
  IN [i \in 1..Len(names) |-> <<names[i], MapGet(map, names[i])>>]

\* deserializeMap(json, k => k, deserializeValue): result.set(key,
\* deserializeValue(JSON.stringify(obj[key]))) for every key of Object.keys.
\* The entries set, in order, each with the text its caller's
\* deserializeValue is applied to.
deserializeMap(json) ==
  LET names == ParsedOrder(MapKeys(json))
  IN [i \in 1..Len(names) |-> <<names[i], MapGet(json, names[i])>>]

\* The fields of a GnTarget, in the order of the interface.
GnTargetFields ==
  <<"deps", "type", "toolchain", "include_dirs", "defines", "sources", "inputs",
    "outputs", "args", "script", "cflags">>

\* The value a field has when the target has no such property.
UndefinedField(f) == IF f \in {"toolchain", "script"} THEN UNDEF ELSE UNDEF_ARRAY

\* The fields every GnTarget has.
RequiredFields == {"deps", "type"}

\* JSON.stringify(target): the properties whose value is not undefined.
StringifyTarget(target) ==
  LET present == SelectSeq(GnTargetFields,
                           LAMBDA f : f \in RequiredFields \/ target[f] # UndefinedField(f))
  IN [i \in 1..Len(present) |-> <<present[i], target[present[i]]>>]

\* JSON.parse(text) as GnTarget: reading a property the text lacks gives
\* undefined.
ParseTarget(text) ==
  [f \in Range(GnTargetFields) |->
     IF MapHas(text, f) THEN MapGet(text, f) ELSE UndefinedField(f)]

\* GnBuild.serialize(gnBuild), of the build's Map of targets:
\* serializeMap(gnBuild.targets, k => k, v => JSON.stringify(v))
GnBuild_serialize(targets) ==
  LET written == serializeMap(targets)
  IN [i \in 1..Len(written) |-> <<written[i][1], StringifyTarget(written[i][2])>>]

\* GnBuild.deserialize(json): [err, value], value the build's Map of targets
GnBuild_deserialize(json) ==
  LET read == deserializeMap(json)
      targets == [i \in 1..Len(read) |-> <<read[i][1], ParseTarget(read[i][2])>>]
  IN IF ~MapHas(targets, TARGET_ALL)
     THEN [err |-> "GnBuild has no //:all target", value |-> <<>>]
     ELSE [err |-> "", value |-> targets]

\* GnProject.serialize(gnProject), of the project's Map of builds:
\* serializeMap(gnProject.builds, k => k, GnBuild.serialize)
GnProject_serialize(builds) ==
  LET written == serializeMap(builds)
  IN [i \in 1..Len(written) |-> <<written[i][1], GnBuild_serialize(written[i][2])>>]

\* GnProject.deserialize(json): [err, value], value the project's Map of
\* builds; the first build that fails to deserialize throws.
GnProject_deserialize(json) ==
  LET read == deserializeMap(json)
      each == [i \in 1..Len(read) |-> <<read[i][1], GnBuild_deserialize(read[i][2])>>]
  IN IF \E i \in 1..Len(each) : each[i][2].err # ""
     THEN [err |-> each[CHOOSE i \in 1..Len(each) :
                          /\ each[i][2].err # ""
                          /\ \A j \in 1..(i - 1) : each[j][2].err = ""][2].err,
           value |-> <<>>]
     ELSE [err |-> "", value |-> [i \in 1..Len(each) |-> <<each[i][1], each[i][2].value>>]]

-----------------------------------------------------------------------------
(* One call of a function that keeps no state: the arguments are drawn when
   the call is made, and the step applies the function to them. *)

another == <<"a", "n", "o", "t", "h", "e", "r">>

\* The builds gypifyPath is called for; the last is the empty build name.
PathBuilds == {mac_debug, another, <<>>}

PathHeads ==
  {<<>>,
   <<"/">>,
   <<"/", "/">>,
   <<"/", "/", "o", "u", "t", "/">>,
   <<"/", "/", "o", "u", "t", "/", "m", "a", "c", "_", "d", "e", "b", "u", "g">>,
   <<"/", "/", "o", "u", "t", "/", "m", "a", "c", "_", "d", "e", "b", "u", "g", "/">>,
   <<"/", "/", "o", "u", "t", "/", "a", "n", "o", "t", "h", "e", "r", "/">>,
   <<"/", "/", "o", "u", "t", "/", "/">>,
   <<"o", "u", "t", "/", "m", "a", "c", "_", "d", "e", "b", "u", "g", "/">>,
   <<".", ".", "/">>,
   <<"/", "/", "o", "u", "t", "/", "m", "a", "c", "_", "d", "e", "b", "u", "g", "/", "/">>,
   <<"C", ":">>}

PathTails ==
  {<<>>,
   <<"x">>,
   <<"g", "e", "n", "/", "x", ".", "h">>,
   <<"f", "o", "o", "/", "b", "a", "r", ".", "c", "c">>}

GypifyPathInputs == {<<b, h \o t>> : b \in PathBuilds, h \in PathHeads, t \in PathTails}

MaxFlags == 3

FlagTokens ==
  {<<"-", "I">>,
   <<"-", "i">>,
   <<"-", "I", "f", "o", "o">>,
   <<"-", "i", "s", "y", "s", "t", "e", "m">>,
   <<"-", "i", "n", "c", "l", "u", "d", "e">>,
   <<"-", "O", "2">>,
   <<"x">>,
   <<"-">>}

\* The flag lists extractIncludes is called with: every list of at most
\* MaxFlags tokens.
ExtractIncludesInputs == UNION {[1..n -> FlagTokens] : n \in 0..MaxFlags}

\* The names GnBuild.getTarget is asked for, the last with a toolchain in it.
LookupNames == {LibName, DName, QualifiedName(LibName, GccLikeHost)}

LookupToolchains == {GccLike, GccLikeHost, OtherToolchain}

\* The keys a build may hold besides //:all, in the Map's order.
LookupKeys ==
  <<LibName, QualifiedName(LibName, GccLikeHost), QualifiedName(LibName, GccLike),
    DName, QualifiedName(DName, OtherToolchain)>>

\* The target stored under a key of LookupKeys: its sources name the key.
LookupTarget(key, defaultToolchain) ==
  GnTargetWith(<<>>, "static_library",
               IF Falsy(parseGnTargetName(key).toolchain) THEN defaultToolchain
               ELSE parseGnTargetName(key).toolchain,
               <<key>>, UNDEF_ARRAY)

\* The build of default toolchain tc holding //:all and the keys at the
\* places `held` of LookupKeys.
LookupBuild(tc, held) ==
  GnBuildFrom(<<<<TARGET_ALL, GnTarget(<<>>, "group", tc)>>>>
                \o [i \in 1..Len(SelectSeq([k \in 1..Len(LookupKeys) |-> k], LAMBDA k : k \in held)) |->
                      LET key == LookupKeys[SelectSeq([k \in 1..Len(LookupKeys) |-> k],
                                                      LAMBDA k : k \in held)[i]]
                      IN <<key, LookupTarget(key, tc)>>])

GetTargetInputs ==
  {<<LookupBuild(tc, held), toolchain, name>> :
     tc \in {GccLike, GccLikeHost}, held \in SUBSET (1..Len(LookupKeys)),
     toolchain \in LookupToolchains, name \in LookupNames}

\* The names of the builds of a serialized project: directories of out/.
SerializedBuildNames == {mac_debug, <<"1", "0">>, <<"7">>, PROTO}

\* The Maps of targets of the builds of a serialized project, as
\* GnBuild.deserialize made them.
SerializedBuilds ==
  {<<<<TARGET_ALL, GnTarget(<<RootName>>, "group", GccLike)>>,
     <<RootName, GnTargetWith(<<LibName>>, "static_library", GccLike, <<XCC>>, UNDEF_ARRAY)>>,
     <<LibName, GnTargetWith(<<>>, "source_set", GccLike, <<XCC>>, <<XCC>>)>>>>,
   <<<<QualifiedName(LibName, GccLikeHost),
       GnTargetWith(<<>>, "static_library", GccLikeHost, UNDEF_ARRAY, UNDEF_ARRAY)>>,
     <<TARGET_ALL, GnTarget(<<QualifiedName(LibName, GccLikeHost)>>, "group", GccLikeHost)>>>>,
   <<<<TARGET_ALL, GnTarget(<<>>, "group", UNDEF)>>>>,
   <<<<TARGET_ALL, [GnTarget(<<>>, "action", GccLike) EXCEPT !.script = XCC, !.args = <<XCC, XCC>>]>>>>}

\* The projects serialized: one build, or two builds of different names in
\* either order.
RoundTripInputs ==
  {<<<<n, b>>>> : n \in SerializedBuildNames, b \in SerializedBuilds}
    \cup {<<<<n[1], b1>>, <<n[2], b2>>>> :
             n \in {m \in SerializedBuildNames \X SerializedBuildNames : m[1] # m[2]},
             b1 \in SerializedBuilds, b2 \in SerializedBuilds}

NamePaths == {<<>>,    <<"a">>,    <<"a", "/", "b">>}

NameTargets == {<<"l", "i", "b">>,    <<"a", "l", "l">>,    <<"x", "(", "y">>,    <<>>}

\* Toolchains of a target name: labels, and designators that are no label.
NameToolchains ==
  {GccLike, GccLikeHost, OtherToolchain}
    \cup {<<"h", "o", "s", "t">>,
   <<"g", "c", "c", "_", "l", "i", "k", "e">>,
   <<"h", ")", "(", "t">>,
   <<"/", "/", "t", ":", "o", "(", "x", ")">>,
   <<"a", ":", "b", ":", "c">>}

\* The components of the target names parsed from their canonical string;
\* toolchain undefined for a name without one.
NameComponents ==
  [path : NamePaths, target : NameTargets, toolchain : NameToolchains \cup {UNDEF}]

\* `//${path}:${target}` or `//${path}:${target}(${toolchain})`
CanonicalString(x) ==
  IF x.toolchain = UNDEF THEN UnqualifiedName(x.path, x.target)
  ELSE QualifiedName(UnqualifiedName(x.path, x.target), x.toolchain)

\* Strings that are no canonical string.
OtherStrings ==
  {<<>>,
   <<"a", ":", "l", "i", "b">>,
   <<"/", "a", ":", "l", "i", "b">>,
   <<"/", "/", "a", "l", "i", "b">>,
   <<"/", "/">>,
   <<"a">>,
   <<"/", "/", "a", "(", "/", "/", "t", ":", "o", ")">>,
   <<":", "/", "/", "a">>,
   <<"/", "/", "a", ":", "b", ":", "c">>,
   <<"/", "/", "a", ":", "b", "(", "c", ":", "d">>,
   <<"/", "/", "a", ":", "b", "(", "c", ":", "d", ")", "e">>,
   <<"/", ":", "/", "a">>,
   <<"/", "/", "a", ":", "b", "(", "h", ")", "(", "c", ":", "d", ")">>}

ParseInputs ==
  {[text |-> CanonicalString(x), canonical |-> TRUE, x |-> x] : x \in NameComponents}
    \cup {[text |-> t, canonical |-> FALSE,
            x |-> [path |-> <<>>, target |-> <<>>, toolchain |-> UNDEF]] : t \in OtherStrings}

CallInputs ==
  {<<"gypifyPath", a>> : a \in GypifyPathInputs}
    \cup {<<"parseGnTargetName", a>> : a \in ParseInputs}
    \cup {<<"GnProject.deserialize(GnProject.serialize)", a>> : a \in RoundTripInputs}
    \cup {<<"getTarget", a>> : a \in GetTargetInputs}
    \cup {<<"extractIncludes", a>> : a \in ExtractIncludesInputs}

InitCalls ==
  /\ \E c \in CallInputs :
        /\ calledFn = c[1]
        /\ callArgs = c[2]
  /\ callDone = FALSE
  /\ callResult = <<>>
  /\ ClosureIdle(NoProject)
  /\ FetchIdle(<<>>, <<>>)
  /\ PoolIdle
  /\ MergerIdle
  /\ AssembleIdle(NoOptions)

Call_gypifyPath ==
  /\ calledFn = "gypifyPath"
  /\ ~callDone
  /\ callDone' = TRUE
  /\ callResult' = gypifyPath(callArgs[1], callArgs[2])
  /\ UNCHANGED <<calledFn, callArgs>>
  /\ UNCHANGED otherThanCalls

Call_extractIncludes ==
  /\ calledFn = "extractIncludes"
  /\ ~callDone
  /\ callDone' = TRUE
  /\ callResult' = extractIncludes(callArgs)
  /\ UNCHANGED <<calledFn, callArgs>>
  /\ UNCHANGED otherThanCalls

\* GnBuild.getTarget: the target, or the throw of its `if (!result)`
Call_getTarget ==
  /\ calledFn = "getTarget"
  /\ ~callDone
  /\ callDone' = TRUE
  /\ callResult' =
       IF hasTarget(callArgs[1], callArgs[2], callArgs[3])
       THEN [err |-> "", value |-> getTarget(callArgs[1], callArgs[2], callArgs[3])]
       ELSE [err |-> "No target with toolchain", value |-> UNDEF]
  /\ UNCHANGED <<calledFn, callArgs>>
  /\ UNCHANGED otherThanCalls

\* GnProject.deserialize(GnProject.serialize(p)), and the serialization of
\* what it returned
Call_deserialize_serialize ==
  /\ calledFn = "GnProject.deserialize(GnProject.serialize)"
  /\ ~callDone
  /\ callDone' = TRUE
  /\ \E json \in {GnProject_serialize(callArgs)} :
       \E q \in {GnProject_deserialize(json)} :
          callResult' = [err |-> q.err, value |-> q.value, json |-> json,
                         again |-> IF q.err = "" THEN GnProject_serialize(q.value) ELSE <<>>]
  /\ UNCHANGED <<calledFn, callArgs>>
  /\ UNCHANGED otherThanCalls

Call_parseGnTargetName ==
  /\ calledFn = "parseGnTargetName"
  /\ ~callDone
  /\ callDone' = TRUE
  /\ callResult' = parseGnTargetName(callArgs.text)
  /\ UNCHANGED <<calledFn, callArgs>>
  /\ UNCHANGED otherThanCalls

NextCalls ==
  \/ Call_gypifyPath
  \/ Call_parseGnTargetName
  \/ Call_deserialize_serialize
  \/ Call_getTarget
  \/ Call_extractIncludes

SpecCalls == InitCalls /\ [][NextCalls]_vars

-----------------------------------------------------------------------------
(* Claims about the functions that keep no state *)

\* gypifyPath has returned or thrown.
GypifyPathDone == calledFn = "gypifyPath" /\ callDone

\* The path p is the prefix followed by rest.
SplitsAs(p, prefix, rest) == p = prefix \o rest

\* `//out/<build>/`
OutDirectoryOf(build) == <<"/", "/", "o", "u", "t", "/">> \o build \o <<"/">>

\* The tails of the string p.
TailsOf(p) == {SubSeq(p, k, Len(p)) : k \in 1..(Len(p) + 1)}

UnderOutDirectory(build, p) == \E r \in TailsOf(p) : SplitsAs(p, OutDirectoryOf(build), r)

UnderRoot(p) == \E r \in TailsOf(p) : SplitsAs(p, <<"/", "/">>, r)

\* C22: gypifyPath(build, p) returns the shared-intermediate token and the
\* rest of p when p is `//out/<build>/` and a rest, returns the project-root
\* token and the rest of p when p is otherwise `//` and a rest, and throws
\* for every other p; so exactly one of the three happens for every p.
C22_GypifyPathThreeOutcomes ==
  GypifyPathDone =>
    LET build == callArgs[1]
        p == callArgs[2]
    IN /\ UnderOutDirectory(build, p) =>
            /\ callResult.err = ""
            /\ \E r \in TailsOf(p) :
                  /\ SplitsAs(p, OutDirectoryOf(build), r)
                  /\ callResult.value = SHARED_INTERMEDIATE_DIR \o <<"/">> \o r
       /\ (~UnderOutDirectory(build, p) /\ UnderRoot(p)) =>
            /\ callResult.err = ""
            /\ \E r \in TailsOf(p) :
                  /\ SplitsAs(p, <<"/", "/">>, r)
                  /\ callResult.value = root_relative_to_gypfile \o <<"/">> \o r
       /\ (~UnderOutDirectory(build, p) /\ ~UnderRoot(p)) =>
            callResult.err = "Unexpected path"

\* A path under the out directory of another build than the one translated
\* was rewritten against the project root.
C22_Witness ==
  /\ GypifyPathDone
  /\ callArgs[1] = mac_debug
  /\ UnderOutDirectory(another, callArgs[2])
  /\ callResult.err = ""
  /\ StartsWith(callResult.value, root_relative_to_gypfile)

\* extractIncludes has returned or thrown.
ExtractIncludesDone == calledFn = "extractIncludes" /\ callDone

\* The include-path flag tokens the claim names.
IncludePathFlagTokens == {<<"-", "I">>, <<"-", "i">>}

\* The tokens of flags[from..] that immediately follow a token of the set
\* isFlag, in order.
RECURSIVE TokensAfter(_, _, _)
TokensAfter(flags, isFlag, from) ==
  IF from >= Len(flags) THEN <<>>
  ELSE (IF flags[from] \in isFlag THEN <<flags[from + 1]>> ELSE <<>>)
         \o TokensAfter(flags, isFlag, from + 1)

\* C23: extractIncludes(flags) returns, in order, exactly the tokens that
\* immediately follow a token `-I` or `-i`, nothing for any other token, and
\* throws when the last token is `-I` or `-i`.
C23_ExtractIncludesFollowers ==
  ExtractIncludesDone =>
    IF Len(callArgs) > 0 /\ callArgs[Len(callArgs)] \in IncludePathFlagTokens
    THEN callResult.err = "Unexpected value for last cflag"
    ELSE /\ callResult.err = ""
         /\ callResult.value = TokensAfter(callArgs, IncludePathFlagTokens, 1)

\* The tokens at the beginning of which the code's test /^-[Ii]/ succeeds.
IncludePrefixedTokens == {t \in FlagTokens : Len(t) >= 2 /\ SubSeq(t, 1, 2) \in IncludePathFlagTokens}

\* What extractIncludes does: the claim with every token beginning with
\* `-I` or `-i` taken for an include-path flag.
ExtractIncludesByPrefix ==
  ExtractIncludesDone =>
    IF Len(callArgs) > 0 /\ callArgs[Len(callArgs)] \in IncludePrefixedTokens
    THEN callResult.err = "Unexpected value for last cflag"
    ELSE /\ callResult.err = ""
         /\ callResult.value = TokensAfter(callArgs, IncludePrefixedTokens, 1)

\* GnBuild.getTarget has returned or thrown.
GetTargetDone == calledFn = "getTarget" /\ callDone

\* The one key the claim names for the call getTarget(toolchain, name).
ClaimedKey(build, toolchain, name) ==
  IF toolchain = build.defaultToolchain THEN name
  ELSE name \o <<"(">> \o toolchain \o <<")">>

\* The other form of the key.
OtherKey(build, toolchain, name) ==
  IF toolchain = build.defaultToolchain THEN name \o <<"(">> \o toolchain \o <<")">>
  ELSE name

\* C24: GnBuild.getTarget(toolchain, name) returns the target stored under
\* the key name when toolchain is the build's default toolchain and under
\* the key `name(toolchain)` otherwise, and throws when nothing is stored
\* under that key, also when a target is stored under the other form.
C24_GetTargetExactKey ==
  GetTargetDone =>
    LET build == callArgs[1]
        key == ClaimedKey(build, callArgs[2], callArgs[3])
    IN IF key \in DOMAIN build.targets
       THEN callResult.err = "" /\ callResult.value = build.targets[key]
       ELSE callResult.err # ""

\* getTarget threw for a toolchain other than the default although a target
\* is stored under the name alone.
C24_Witness ==
  /\ GetTargetDone
  /\ callResult.err # ""
  /\ callArgs[2] # callArgs[1].defaultToolchain
  /\ OtherKey(callArgs[1], callArgs[2], callArgs[3]) \in DOMAIN callArgs[1].targets

\* The round trip has returned or thrown.
RoundTripDone == calledFn = "GnProject.deserialize(GnProject.serialize)" /\ callDone

\* The keys of a Map, as a set.
KeySet(map) == {map[i][1] : i \in 1..Len(map)}

\* The project q has the build names of p and, for each build, the target
\* names, the value of every field of every target and the default
\* toolchain of p's build.
SameProject(p, q) ==
  /\ KeySet(q) = KeySet(p)
  /\ \A n \in KeySet(p) :
        /\ KeySet(MapGet(q, n)) = KeySet(MapGet(p, n))
        /\ \A t \in KeySet(MapGet(p, n)) :
              \A i \in 1..Len(GnTargetFields) :
                 MapGet(MapGet(q, n), t)[GnTargetFields[i]]
                   = MapGet(MapGet(p, n), t)[GnTargetFields[i]]
        /\ MapGet(MapGet(q, n), TARGET_ALL).toolchain
             = MapGet(MapGet(p, n), TARGET_ALL).toolchain

\* C25: GnProject.deserialize(GnProject.serialize(p)) is a project with the
\* build names of p and, for each build, the same target names, the same
\* value of every target field and the same default toolchain, and
\* serializing it again gives the same string.
C25_RoundTripLossless ==
  RoundTripDone =>
    /\ callResult.err = ""
    /\ SameProject(callArgs, callResult.value)
    /\ callResult.again = callResult.json

\* The same for the projects none of whose builds is named __proto__.
RoundTripUnlessProto ==
  (RoundTripDone /\ PROTO \notin KeySet(callArgs)) =>
    /\ callResult.err = ""
    /\ SameProject(callArgs, callResult.value)
    /\ callResult.again = callResult.json

\* A round trip returned the builds in another order than the project had
\* them, with targets that have undefined fields.
RoundTripReordered ==
  /\ RoundTripDone
  /\ callResult.err = ""
  /\ Len(callArgs) = 2
  /\ MapKeys(callResult.value) # MapKeys(callArgs)
  /\ SameProject(callArgs, callResult.value)

\* parseGnTargetName has returned or thrown.
ParseDone == calledFn = "parseGnTargetName" /\ callDone

\* The string lacks the leading `//` or has no `:`.
LacksSlashesOrColon(text) ==
  \/ Len(text) < 2
  \/ text[1] # "/"
  \/ text[2] # "/"
  \/ \A i \in 1..Len(text) : text[i] # ":"

\* parseGnTargetName returned the components of x.
ParsedAs(x) ==
  /\ callResult.ok
  /\ callResult.path = x.path
  /\ callResult.target = x.target
  /\ callResult.toolchain = x.toolchain

\* C26: parseGnTargetName of the canonical string of a target name x
\* returns the path, the short name and the toolchain of x, no toolchain
\* when x has none, whatever characters the toolchain contains; and
\* parseGnTargetName throws for a string without the leading `//` or
\* without a `:`.
C26_ParseFormatIdentity ==
  ParseDone =>
    /\ callArgs.canonical => ParsedAs(callArgs.x)
    /\ LacksSlashesOrColon(callArgs.text) => ~callResult.ok

\* The same for the names whose toolchain, when they have one, contains a
\* colon, as every GN label does.
ParseFormatIdentityForLabels ==
  ParseDone =>
    /\ (callArgs.canonical
          /\ (callArgs.x.toolchain = UNDEF \/ IndexOf(callArgs.x.toolchain, ":") > 0))
         => ParsedAs(callArgs.x)
    /\ LacksSlashesOrColon(callArgs.text) => ~callResult.ok

\* A toolchain with parentheses and colons in it came back whole.
ParsedOddLabel ==
  /\ ParseDone
  /\ callArgs.canonical
  /\ callArgs.x.toolchain = <<"/", "/", "t", ":", "o", "(", "x", ")">>
  /\ callArgs.x.target = <<"x", "(", "y">>
  /\ ParsedAs(callArgs.x)

-----------------------------------------------------------------------------
(* Claims about the dependencies fromGnProject emits *)

\* The dependencies of the target emitted at e; none for a target without
\* a list.
EmittedDependencies(e) ==
  IF TargetAt(e).dependencies = UNDEF_ARRAY THEN <<>> ELSE TargetAt(e).dependencies

\* The file in front of the `:` of a dependency without its toolset, or the
\* empty string; a leading `./` is no part of it.
DependencyFile(dep) ==
  LET body == StripToolset(dep)
      c == IndexOf(body, ":")
      file == SubSeq(body, 1, c - 1)
  IN IF c = 0 THEN <<>>
     ELSE IF StartsWith(file, <<".", "/">>) THEN SubSeq(file, 3, Len(file))
     ELSE file

\* The target name of a dependency: all after the `:`, without the toolset.
DependencyTarget(dep) ==
  LET body == StripToolset(dep)
  IN SubSeq(body, IndexOf(body, ":") + 1, Len(body))

\* The dependency dep of the target emitted at e refers to f: f has the
\* name, lies in the grouping of e, or in the one of the file named in
\* front, and has the toolset after the `#`, if there is one.
RefersTo(e, dep, f) ==
  /\ TargetAt(f).target_name = DependencyTarget(dep)
  /\ IF DependencyFile(dep) = <<>> THEN f[1] = e[1]
     ELSE data[f[1]].file = DependencyFile(dep)
  /\ IndexOf(dep, "#") > 0 =>
        \E k \in 1..Len(TargetAt(f).toolsets) : TargetAt(f).toolsets[k] = ToolsetSuffix(dep)

\* The places of the dependencies that refer to no emitted target.
Dangling ==
  {<<e, k>> \in Emitted \X (1..8) :
     /\ k <= Len(EmittedDependencies(e))
     /\ ~\E f \in Emitted : RefersTo(e, EmittedDependencies(e)[k], f)}

\* C27: in every output of fromGnProject each dependency of each emitted
\* target refers to an emitted target: one of that name in the same
\* grouping, or in the grouping whose file is named in front (for
\* empty.gyp:gen_empty_cc too), that has the toolset after the `#` among
\* its toolsets when the dependency has one.
C27_DependenciesResolve ==
  apc = "done" =>
    \A e \in Emitted :
       \A k \in 1..Len(EmittedDependencies(e)) :
          \E f \in Emitted : RefersTo(e, EmittedDependencies(e)[k], f)

\* Every dependency of every fragment translated under a toolchain other
\* than the build's default names its toolchain, so that the translator and
\* the closure resolver resolve the same toolchain for it.
ToolchainRulesAgree ==
  \A i \in 1..Len(translated) :
     \A k \in 1..Len(NonExcludedDeps(i)) :
        ClosureKeyOf(i, NonExcludedDeps(i)[k]).toolchain
          = TranslatorToolchainOf(i, NonExcludedDeps(i)[k])

\* The statement of C27 for the runs in which the two rules agree.
DependenciesResolveWhenRulesAgree ==
  (apc = "done" /\ ToolchainRulesAgree) => Dangling = {}

\* A finished run in which they agree, with a dependency into another file
\* and a dependency with a toolset.
ResolvedAcrossFiles ==
  /\ apc = "done"
  /\ ToolchainRulesAgree
  /\ \E e \in Emitted : \E k \in 1..Len(EmittedDependencies(e)) :
        /\ DependencyFile(EmittedDependencies(e)[k]) = <<"o", ".", "g", "y", "p">>
        /\ IndexOf(EmittedDependencies(e)[k], "#") > 0

-----------------------------------------------------------------------------
(* Claims about the termination of getAllGnTargetDeps *)

\* The key k names a target of its build.
KeyExists(k) ==
  ClaimedKey(getBuild(gnProject, k.build), k.toolchain, k.name)
    \in DOMAIN getBuild(gnProject, k.build).targets

\* The target the key k names.
TargetOfKey(k) ==
  getBuild(gnProject, k.build).targets[
    ClaimedKey(getBuild(gnProject, k.build), k.toolchain, k.name)]

\* The keys the dependencies of the keys of `keys` refer to.
ReferredFrom(keys) ==
  UNION {{DepKey(parseGnTargetName(TargetOfKey(k).deps[i]), k) :
            i \in {j \in 1..Len(TargetOfKey(k).deps) :
                     parseGnTargetName(TargetOfKey(k).deps[j]).ok}} :
         k \in {x \in keys : KeyExists(x)}}

\* The keys reachable from `keys` along dependencies.
RECURSIVE ReferredClosure(_)
ReferredClosure(keys) ==
  IF ReferredFrom(keys) \subseteq keys THEN keys
  ELSE ReferredClosure(keys \cup ReferredFrom(keys))

ReachableKeys == ReferredClosure(Range(Seeds(gnProject, gnRootTarget)))

\* Every target referred to exists: every reachable key names a target, and
\* every dependency of such a target is a target name.
ReferencedTargetsExist ==
  \A k \in ReachableKeys :
     /\ KeyExists(k)
     /\ \A i \in 1..Len(TargetOfKey(k).deps) : parseGnTargetName(TargetOfKey(k).deps[i]).ok

\* Some reachable key reaches itself: the graph has a cycle or a
\* self-dependency.
ReachableCycle == \E k \in ReachableKeys : k \in ReferredClosure(ReferredFrom({k}))

\* C28: when every target referred to exists, the loop of the closure
\* resolver ends, also for a graph with a cycle or a self-dependency: the
\* queue becomes empty and the result is returned.
C28_ClosureTerminates ==
  (cpc = "idle" /\ ReferencedTargetsExist)
    ~> (cpc = "done" /\ gnBuildConfigQueue = <<>>)

\* The resolver returned for a graph with a cycle.
C28_Witness ==
  /\ cpc = "done"
  /\ gnBuildConfigQueue = <<>>
  /\ ReferencedTargetsExist
  /\ ReachableCycle

-----------------------------------------------------------------------------
(* Claims about the completion of fromDirectory *)

\* Some `gn desc` failed.
SomeQueryRejected ==
  \E b \in DOMAIN fetch : \E i \in DOMAIN fetch[b].inv : fetch[b].inv[i].state = "rejected"

\* The call c of build b asks for a target that the call holding its
\* promise, or the call holding that one's, asked for: the graph led back to
\* a target whose dependencies are still being resolved.
ReachedAgainInProgress(b, c) ==
  LET calls == fetch[b].calls
      parent == calls[c].parent
  IN /\ parent # 0
     /\ \/ calls[parent].target = calls[c].target
        \/ /\ calls[parent].parent # 0
           /\ calls[calls[parent].parent].target = calls[c].target

\* C29: when no `gn desc` fails and each one exits, fromDirectory
\* completes, also when the graph has a cycle or leads back to a target
\* whose description or dependencies are still in progress.
C29_FromDirectoryCompletes == <>(fpc = "resolved" \/ SomeQueryRejected)

\* With failing queries too, fromDirectory settles.
FromDirectorySettles == <>(fpc \in {"resolved", "rejected"})

\* fromDirectory resolved for a graph that led back to a target in progress.
C29_Witness ==
  /\ fpc = "resolved"
  /\ ~SomeQueryRejected
  /\ \E b \in DOMAIN fetch : \E c \in DOMAIN fetch[b].calls : ReachedAgainInProgress(b, c)

-----------------------------------------------------------------------------
(* Claims about the waiting calls of pool *)

\* The call c of the wrapper is at `await preWork`.
Waiting(c) == c \in DOMAIN pcalls /\ pcalls[c].state = "waiting"

\* The call c has called fn.
Started(c) == c \in DOMAIN pcalls /\ pcalls[c].state \in {"running", "returned", "threw"}

\* The calls that hold a slot: past poolSize--, before the finally block.
HoldingSlot == {c \in DOMAIN pcalls : pcalls[c].state = "running"}

\* Every call between poolSize-- and its finally block holds one slot and
\* every other slot is free.
SlotsReturned == poolMode = "limited" => poolSize = poolArg - Cardinality(HoldingSlot)

\* A call of the wrapper throws only the rejection of its own invocation.
OnlyOwnRejection ==
  poolMode = "limited" =>
    \A c \in DOMAIN pcalls :
       pcalls[c].state = "threw" => promises[pcalls[c].promise] = "rejected"

\* A waiting call goes on waiting or calls fn, whatever settled.
WaitingNeverThrows ==
  [][\A c \in DOMAIN pcalls :
       Waiting(c) => pcalls'[c].state \in {"waiting", "running"}]_vars

====
